---- MODULE Spec2Model ----
(***************************************************************************)
(* IvrMappingService: one exploration job.  The job object is built by     *)
(* the constructor, submitted once through startMapping, and then driven   *)
(* by the processMapping workflow, whose continuations interleave with     *)
(* cancelJob, notifyCallComplete, the per-call timer and the collaborator  *)
(* that writes the mapping file, at the workflow's await points.  Every     *)
(* await is taken as a point where the other operations can run: code that *)
(* runs in the same tick after startMapping returns sees the job suspended *)
(* at its first await.                                                     *)
(* The ledger tools are modelled beside the job: the path planner and the  *)
(* two forms of read_legs as operators applied to bounded inputs, and      *)
(* write_legs as calls that interleave at their awaits.                    *)
(***************************************************************************)
EXTENDS Integers, Sequences, FiniteSets, TLC

\* ---------------------------------------------------------------- bounds
\* Largest number of menu steps a mapping file holds in the model.
MaxSteps == 2

\* Largest number of paths deeper than the planner searches that a caller's
\* completedPaths holds in the model.
MaxExtra == 1

\* Largest leg number a caller of write_legs documents in the model.
MaxLegs == 2

\* Latest reading of the clock in the model.
MaxClock == 1

\* ------------------------------------------------------ program constants
maxIterations == 10
\* Highest option digit generateNextPath tries at each of its three levels.
MaxDigit == 9
\* A fallback one level deeper than the one the code names.
FallbackPathFiveDeep == <<1, 1, 1, 1, 1>>
\* The path generateNextPath suggests when its three scans find nothing.
FallbackPath == <<1, 1, 1, 1>>

TimeoutMsg == "Call completion timeout"
CancelMsg == "Job cancelled by user"
\* Message of the error a failing twilioService.makeOutboundCall rejects with.
CallErrMsg == "makeOutboundCall failed"
\* Message of the error thrown while the orchestration service is set up.
AssetsErrMsg == "active assets unavailable"

\* undefined, for callCompletionResolve / callCompletionReject
NoHandle == 0
\* A file readFile or JSON.parse fails on (absent or not parseable).
NoFile == [readable |-> FALSE, steps |-> << >>]

Terminal == {"completed", "failed", "cancelled"}
JobStatus == {"pending", "in-progress"} \cup Terminal

\* ------------------------------------------------------------ mapping data
\* A menu path is the sequence of the digits pressed to reach a menu: <<1, 2>>
\* is the path the code writes '1-2'.  The sentinel 'root' names the menu that
\* is reached with no digit pressed.
root == << >>

PathOf(i) == IF i = 1 THEN root ELSE <<i - 1>>

MenuStep(i) ==
    [menuPath |-> PathOf(i), dtmfSent |-> IF i = 1 THEN "" ELSE ToString(i - 1),
     status |-> "COMPLETED"]

LedgerOf(n) == [i \in 1..n |-> MenuStep(i)]

\* Contents the mapping file can hold: absent/corrupt, or an array of steps.
FileContents ==
    {NoFile} \cup {[readable |-> TRUE, steps |-> LedgerOf(n)] : n \in 0..MaxSteps}

\* Requests a submitter can pass to startMapping.
Requests ==
    [phoneNumber : {"", "+15551234567"}, callbackUrl : {"", "http://cb"}]

VARIABLES
    status,                 \* this.status
    updatedAt,              \* this.updatedAt, as the number of stamps taken
    request,                \* this.request
    callbackUrl,            \* this.callbackUrl ("" is undefined)
    result,                 \* this.result: {} is undefined, {r} is r
    error,                  \* this.error: {} is undefined, {m} is message m
    callCompletionResolve,  \* handle whose resolve is stored, or NoHandle
    callCompletionReject,   \* handle whose reject is stored, or NoHandle
    ivrMappingData,         \* this.ivrMappingData
    handles,                \* outcome of every completion promise created
    timers,                 \* setTimeout callbacks armed and not yet run
    mappingFile,            \* assets/legs/IvrMapping.json
    webhooks,               \* events posted to the callback URL, in order
    calls,                  \* invocations of twilioService.makeOutboundCall
    pc,                     \* await point the workflow is suspended at
    iterationCount,         \* processMapping local
    continueMapping,        \* processMapping local
    callCompletionPromise,  \* processMapping local: handle of this iteration
    finalContext,           \* processMapping local
    completedPaths,         \* the array a caller hands to generateNextPath
    legsFile,               \* server/assets/legs/exploration_legs.json,
                            \* the file the leg form of read_legs reads
    explorationLegs,        \* assets/legs/exploration_legs.json, the file
                            \* write_legs reads and rewrites
    writers,                \* where each running call of write_legs stands
    clock,                  \* new Date(), in ticks
    cancelPc,               \* statement a running cancelJob stands before
    other,                  \* a second job, another IvrMappingService
    ret                     \* last operation run and what it returned

vars == <<status, updatedAt, request, callbackUrl, result, error,
          callCompletionResolve, callCompletionReject, ivrMappingData,
          handles, timers, mappingFile, webhooks, calls, pc, iterationCount,
          continueMapping, callCompletionPromise, finalContext,
          completedPaths, legsFile, explorationLegs, writers, clock,
          cancelPc, other, ret>>

jobFields == <<status, updatedAt, request, callbackUrl, result, error,
               ivrMappingData>>
handleFields == <<callCompletionResolve, callCompletionReject, handles>>
workflowLocals == <<pc, iterationCount, continueMapping,
                    callCompletionPromise, finalContext>>
\* What only write_legs works on.
writeVars == <<explorationLegs, writers, clock>>
\* What is kept beside the job's fields and its workflow: where a cancelJob
\* that is looked at statement by statement stands, and the second job.
besideVars == <<cancelPc, other>>
\* What no operation of the job and no step of its workflow touches: what
\* the ledger tools and the planner work on, and what is kept beside the job.
toolVars == <<completedPaths, legsFile, writeVars, besideVars>>

\* The callers of write_legs: the call-execution collaborator of a job, and
\* someone who invokes the tool by hand.
Writers == {"job", "manual"}

\* A caller that has no call of write_legs running, and has made none yet.
Idle == [pc |-> "idle", returned |-> {}]

\* A caller whose call of write_legs has returned: it holds the arguments it
\* passed and the response it got.
Answered(args, response) ==
    [pc |-> "idle", returned |-> {[args |-> args, response |-> response]}]

\* No call of write_legs was ever made.
NoWrites ==
    /\ explorationLegs = NoFile
    /\ writers = [w \in Writers |-> Idle]
    /\ clock = 0

Returned(op, value) == [op |-> op, value |-> value]

\* ---------------------------------------------------------------- helpers
\* sendProgressWebhook(event, data): nothing is posted when no callback URL
\* is set.  The body is serialised before the call returns.  data holds the
\* { result } or { error } object the event carries and is empty for the
\* other events, whose iteration number and other fields are left out.
sendProgressWebhook(log, url, event, data) ==
    IF url = "" THEN log ELSE Append(log, [event |-> event, data |-> data])

\* resolve/reject of a promise: only the first call settles it.
Settle(hs, h, outcome) ==
    IF hs[h] = "pending" THEN [hs EXCEPT ![h] = outcome] ELSE hs

\* The message of the error a rejected handle raises into its awaiter.
RejectionMessage(outcome) ==
    IF outcome = "cancelled" THEN CancelMsg ELSE TimeoutMsg

\* The "### Menu Path" sections buildFinalContext writes for the non-root steps.
RECURSIVE MenuSections(_)
MenuSections(steps) ==
    IF Len(steps) = 0 THEN << >>
    ELSE <<"### Menu Path", ToString(Head(steps).menuPath)>>
             \o MenuSections(Tail(steps))

\* buildFinalContext, as the list of headings and values it writes.
buildFinalContext(data) ==
    IF Len(data) = 0
    THEN <<"# IVR Context", "No IVR mapping data available for this job.">>
    ELSE LET rootStep == SelectSeq(data, LAMBDA s : s.menuPath = root)
             otherSteps == SelectSeq(data, LAMBDA s : s.menuPath # root)
         IN  <<"# IVR Menu Structure Context">>
                 \o (IF Len(rootStep) > 0 THEN <<"### Root Menu">> ELSE << >>)
                 \o MenuSections(otherSteps)
                 \o <<"## Summary", ToString(Len(data))>>

\* A loadIvrMapping that reads the file before it looks at the memory.
loadIvrMappingFileFirst(data, file) ==
    IF file.readable THEN file.steps ELSE data

\* loadIvrMapping: the in-memory steps, else the file, else an empty array.
loadIvrMapping(data, file) ==
    IF Len(data) > 0 THEN data
    ELSE IF file.readable THEN file.steps ELSE << >>

\* syncMappingDataFromFile: a file that cannot be read keeps the old data.
syncMappingDataFromFile(data, file) ==
    IF file.readable THEN file.steps ELSE data

\* ----------------------------------------------------------- path planner
\* The options the planner tries at each menu level.
Digits == 1..MaxDigit

Min(S) == CHOOSE x \in S : \A y \in S : x <= y

\* The three scans of generateNextPath, each returning the first path that
\* completedPaths.includes() does not find: 1..9, then first-second, then
\* first-second-third, and '1-1-1-1' when every scan comes back empty.
NextUnexplored(cp) ==
    LET completed == {cp[i] : i \in 1..Len(cp)}
        singles == {i \in Digits : <<i>> \notin completed}
        twoFirsts == {f \in Digits : \E s \in Digits : <<f, s>> \notin completed}
        threeFirsts == {f \in Digits : \E s, t \in Digits : <<f, s, t>> \notin completed}
    IN  IF singles # {} THEN <<Min(singles)>>
        ELSE IF twoFirsts # {}
        THEN LET first == Min(twoFirsts)
                 second == Min({s \in Digits : <<first, s>> \notin completed})
             IN  <<first, second>>
        ELSE IF threeFirsts # {}
        THEN LET first == Min(threeFirsts)
                 second == Min({s \in Digits :
                                  \E t \in Digits : <<first, s, t>> \notin completed})
                 third == Min({t \in Digits : <<first, second, t>> \notin completed})
             IN  <<first, second, third>>
        ELSE FallbackPath

\* A generateNextPath that has lost the test for the root sentinel.
generateNextPathWithoutRootCheck(cp) ==
    IF Len(cp) = 0 THEN root ELSE NextUnexplored(cp)

\* generateNextPath of read_legs.ts (menu steps).
generateNextPath(cp) ==
    IF Len(cp) = 0 THEN root
    ELSE IF \A i \in 1..Len(cp) : cp[i] # root THEN root
    ELSE NextUnexplored(cp)

\* The order of the strings the paths are written as, by UTF-16 code unit:
\* '-' sorts before every digit and 'root' after every digit.
StringLess(p, q) ==
    IF p = root \/ q = root THEN p # root /\ q = root
    ELSE \E i \in 1..Len(q) :
            /\ \A j \in 1..(i - 1) : j <= Len(p) /\ p[j] = q[j]
            /\ (i > Len(p) \/ p[i] < q[i])

\* Array.prototype.sort() without a comparator, on an array of path strings.
sort(array) == SortSeq(array, StringLess)

\* generateNextPath of the leg form of read_legs: the value it returns and
\* the array it was handed, which it sorts in place before scanning.
generateNextPathLegs(cp) ==
    IF Len(cp) = 0
    THEN [value |-> <<1>>, completedPaths |-> cp]
    ELSE [value |-> NextUnexplored(sort(cp)), completedPaths |-> sort(cp)]

\* -------------------------------------------------------------- read_legs
\* Array.prototype.sort(compare), which is stable: element i goes behind the
\* elements that sort before it and the equal ones that stood before it.
\* compare is given as the pairs <<a, b>> of elements it orders a before b.
sortWith(array, before) ==
    LET n == Len(array)
        position(i) ==
            Cardinality({j \in 1..n : <<array[j], array[i]>> \in before})
            + Cardinality({j \in 1..(i - 1) :
                             /\ <<array[j], array[i]>> \notin before
                             /\ <<array[i], array[j]>> \notin before})
            + 1
    IN  [k \in 1..n |-> array[CHOOSE i \in 1..n : position(i) = k]]

\* A comparison that puts no menu step before another.
NoMenuPathBefore(array) == {}

\* a.menuPath.localeCompare(b.menuPath) < 0, on the strings paths are
\* written as.
MenuPathBefore(array) ==
    {pair \in {<<array[i], array[j]>> : i, j \in 1..Len(array)} :
        StringLess(pair[1].menuPath, pair[2].menuPath)}

\* A comparison that puts no leg before another.
NoLegBefore(array) == {}

\* a.legNumber - b.legNumber < 0
LegNumberBefore(array) ==
    {pair \in {<<array[i], array[j]>> : i, j \in 1..Len(array)} :
        pair[1].legNumber < pair[2].legNumber}

\* What both forms return when readFile or JSON.parse throws.
FreshSession(next) ==
    [success |-> TRUE, totalSteps |-> 0, steps |-> << >>,
     completedPaths |-> << >>, nextSuggestedPath |-> next]

\* A read that reports a file it cannot load as a failure.
readLegsFailsOnMissingFile(args, inMemoryData, file) ==
    [response |-> [success |-> FALSE, totalSteps |-> 0, steps |-> << >>,
                   completedPaths |-> << >>, nextSuggestedPath |-> root],
     inMemoryData |-> inMemoryData]

\* read_legs (menu steps): the response, and the caller's array after the
\* call.  args.inMemoryData tells whether the caller passes its array; with
\* no filter given, the sort runs on that very array.
readLegs(args, inMemoryData, file) ==
    IF ~args.inMemoryData /\ ~file.readable
    THEN [response |-> FreshSession(root), inMemoryData |-> inMemoryData]
    ELSE LET loaded == IF args.inMemoryData THEN inMemoryData ELSE file.steps
             byStatus ==
                 IF args.filterStatus # "ALL"
                 THEN SelectSeq(loaded, LAMBDA step : step.status = args.filterStatus)
                 ELSE loaded
             byPath ==
                 IF args.targetPath # {}
                 THEN SelectSeq(byStatus, LAMBDA step : step.menuPath \in args.targetPath)
                 ELSE byStatus
             filteredSteps == sortWith(byPath, MenuPathBefore(byPath))
             allSteps ==
                 IF args.filterStatus = "ALL" /\ args.targetPath = {}
                 THEN filteredSteps ELSE loaded
             completed == SelectSeq(allSteps, LAMBDA step : step.status = "COMPLETED")
             paths == [i \in 1..Len(completed) |-> completed[i].menuPath]
             inProgress == SelectSeq(allSteps, LAMBDA step : step.status = "IN_PROGRESS")
         IN  [response |->
                 [success |-> TRUE, totalSteps |-> Len(filteredSteps),
                  steps |-> filteredSteps, completedPaths |-> paths,
                  nextSuggestedPath |->
                      IF Len(inProgress) > 0 THEN inProgress[1].menuPath
                      ELSE generateNextPath(paths)],
              inMemoryData |-> IF args.inMemoryData THEN allSteps ELSE inMemoryData]

\* A leg-form read that asks the planner whatever the legs in progress say.
readLegsLegsAlwaysPlans(args, file) ==
    IF ~file.readable
    THEN FreshSession(<<1>>)
    ELSE LET completed == SelectSeq(file.steps, LAMBDA leg : leg.status = "COMPLETED")
             paths == [i \in 1..Len(completed) |-> completed[i].path]
         IN  [success |-> TRUE, totalSteps |-> Len(file.steps),
              steps |-> sortWith(file.steps, LegNumberBefore(file.steps)),
              completedPaths |-> generateNextPathLegs(paths).completedPaths,
              nextSuggestedPath |-> generateNextPathLegs(paths).value]

\* read_legs (leg form): always reads its file.  totalSteps and steps stand
\* for its totalLegs and legs.
readLegsLegs(args, file) ==
    IF ~file.readable
    THEN FreshSession(<<1>>)
    ELSE LET byStatus ==
                 IF args.filterStatus # "ALL"
                 THEN SelectSeq(file.steps, LAMBDA leg : leg.status = args.filterStatus)
                 ELSE file.steps
             byPath ==
                 IF args.targetPath # {}
                 THEN SelectSeq(byStatus, LAMBDA leg : leg.path \in args.targetPath)
                 ELSE byStatus
             filteredLegs == sortWith(byPath, LegNumberBefore(byPath))
             allLegs ==
                 IF args.filterStatus = "ALL" /\ args.targetPath = {}
                 THEN filteredLegs ELSE file.steps
             completed == SelectSeq(allLegs, LAMBDA leg : leg.status = "COMPLETED")
             paths == [i \in 1..Len(completed) |-> completed[i].path]
             inProgress == SelectSeq(allLegs, LAMBDA leg : leg.status = "IN_PROGRESS")
         IN  [success |-> TRUE, totalSteps |-> Len(filteredLegs),
              steps |-> filteredLegs,
              completedPaths |->
                  IF Len(inProgress) > 0 /\ inProgress[1].nextTarget # {}
                  THEN paths ELSE generateNextPathLegs(paths).completedPaths,
              nextSuggestedPath |->
                  IF Len(inProgress) > 0 /\ inProgress[1].nextTarget # {}
                  THEN CHOOSE target \in inProgress[1].nextTarget : TRUE
                  ELSE generateNextPathLegs(paths).value]

\* ------------------------------------------------------------- processMapping
\* A catch block that marks the job failed and records no message.
CatchErrorWithoutMessage(message, url, log) ==
    /\ status' = "failed"
    /\ error' = error
    /\ updatedAt' = updatedAt + 1
    /\ webhooks' = sendProgressWebhook(log, url, "failed", {[error |-> message]})
    /\ pc' = "done"

\* The catch block of processMapping: updateJobError and the failed webhook.
CatchError(message, url, log) ==
    /\ status' = "failed"
    /\ error' = {message}
    /\ updatedAt' = updatedAt + 1
    /\ webhooks' = sendProgressWebhook(log, url, "failed", {[error |-> message]})
    /\ pc' = "done"

\* The arguments of the workflow's call readLegs({ inMemoryData }).
AnalyseInMemory == [filterStatus |-> "ALL", targetPath |-> {}, inMemoryData |-> TRUE]

\* A loop head that has lost the test of the iteration cap.
LoopHeadWithoutCap(continue, iteration, jobStatus, data, url, log) ==
    /\ continueMapping' = continue
    /\ IF continue
       THEN IF jobStatus = "cancelled"
            THEN /\ pc' = "done"
                 /\ iterationCount' = iteration
                 /\ webhooks' = log
                 /\ finalContext' = finalContext
                 /\ ivrMappingData' = data
            ELSE /\ pc' = "readLegs"
                 /\ iterationCount' = iteration + 1
                 /\ webhooks' = sendProgressWebhook(log, url, "reading_mapping", {})
                 /\ finalContext' = finalContext
                 /\ ivrMappingData' = readLegs(AnalyseInMemory, data, NoFile).inMemoryData
       ELSE /\ pc' = "build"
            /\ iterationCount' = iteration
            /\ webhooks' = sendProgressWebhook(log, url, "building_context", {})
            /\ finalContext' = buildFinalContext(data)
            /\ ivrMappingData' = data

\* The head of the while loop, entered with the given locals, job status,
\* mapping data and webhook log: the next iteration runs up to its first
\* await, or the loop exits into step 7 and buildFinalContext is called.
\* The iteration's call of readLegs runs to its end before that await, and
\* sorts the job's array, which it is handed, by menu path.
LoopHead(continue, iteration, jobStatus, data, url, log) ==
    /\ continueMapping' = continue
    /\ IF continue /\ iteration < maxIterations
       THEN IF jobStatus = "cancelled"
            THEN /\ pc' = "done"
                 /\ iterationCount' = iteration
                 /\ webhooks' = log
                 /\ finalContext' = finalContext
                 /\ ivrMappingData' = data
            ELSE /\ pc' = "readLegs"
                 /\ iterationCount' = iteration + 1
                 /\ webhooks' = sendProgressWebhook(log, url, "reading_mapping", {})
                 /\ finalContext' = finalContext
                 /\ ivrMappingData' = readLegs(AnalyseInMemory, data, NoFile).inMemoryData
       ELSE /\ pc' = "build"
            /\ iterationCount' = iteration
            /\ webhooks' = sendProgressWebhook(log, url, "building_context", {})
            /\ finalContext' = buildFinalContext(data)
            /\ ivrMappingData' = data

\* ------------------------------------------------------------------- Init
\* The second job as its constructor leaves it: the fields the operations
\* on a job read and write, the promise its workflow awaits, the timers it
\* has armed and the await point its workflow stands at.
NewJob ==
    [status |-> "pending", result |-> {}, error |-> {},
     callCompletionResolve |-> NoHandle, callCompletionReject |-> NoHandle,
     callCompletionPromise |-> NoHandle, timers |-> {}, pc |-> "new"]

\* The job as the constructor leaves it.
constructor ==
    /\ status = "pending"
    /\ updatedAt = 0
    /\ request = [phoneNumber |-> "", callbackUrl |-> ""]
    /\ callbackUrl = ""
    /\ result = {}
    /\ error = {}
    /\ callCompletionResolve = NoHandle
    /\ callCompletionReject = NoHandle
    /\ ivrMappingData = << >>
    /\ handles = << >>
    /\ timers = {}
    /\ webhooks = << >>
    /\ calls = 0
    /\ pc = "new"
    /\ iterationCount = 0
    /\ continueMapping = FALSE
    /\ callCompletionPromise = NoHandle
    /\ finalContext = << >>
    /\ cancelPc = "idle"
    /\ other = NewJob
    /\ ret = Returned("constructor", "ok")

Init ==
    /\ constructor
    /\ mappingFile \in FileContents
    /\ completedPaths = << >>
    /\ legsFile = NoFile
    /\ NoWrites

\* ---------------------------------------------------- public operations
\* startMapping that stores the request before it validates it.
startMappingStoresFirst(req, assetsOk) ==
    /\ pc = "new"
    /\ request' = req
    /\ callbackUrl' = req.callbackUrl
    /\ IF req.phoneNumber = ""
       THEN /\ ret' = Returned("startMapping", "throws")
            /\ UNCHANGED <<status, updatedAt, result, error, ivrMappingData,
                           handleFields, workflowLocals, timers,
                           mappingFile, webhooks, calls>>
       ELSE /\ IF assetsOk
               THEN /\ status' = "in-progress"
                    /\ updatedAt' = updatedAt + 1
                    /\ error' = error
                    /\ LoopHead(TRUE, 0, "in-progress", ivrMappingData, req.callbackUrl,
                                sendProgressWebhook(webhooks, req.callbackUrl, "job_created", {}))
               ELSE /\ status' = "failed"
                    /\ error' = {AssetsErrMsg}
                    /\ updatedAt' = updatedAt + 2
                    /\ webhooks' = sendProgressWebhook(
                           sendProgressWebhook(webhooks, req.callbackUrl, "job_created", {}),
                           req.callbackUrl, "failed", {[error |-> AssetsErrMsg]})
                    /\ pc' = "done"
                    /\ UNCHANGED <<iterationCount, continueMapping, finalContext,
                                   ivrMappingData>>
            /\ ret' = Returned("startMapping", "ok")
            /\ UNCHANGED <<result, handleFields, timers,
                           mappingFile, calls, callCompletionPromise>>

\* startMapping(request), with the synchronous part of processMapping it
\* runs before returning: up to the first await of the first iteration.
\* assetsOk tells whether getActiveAssets / new OpenAIResponseService succeed.
\* A job object is submitted once: an accepted request starts its workflow.
startMapping(req, assetsOk) ==
    /\ pc = "new"
    /\ IF req.phoneNumber = ""
       THEN /\ ret' = Returned("startMapping", "throws")
            /\ UNCHANGED <<jobFields, handleFields, workflowLocals, timers,
                           mappingFile, webhooks, calls>>
       ELSE /\ request' = req
            /\ callbackUrl' = req.callbackUrl
            /\ IF assetsOk
               THEN /\ status' = "in-progress"
                    /\ updatedAt' = updatedAt + 1
                    /\ error' = error
                    /\ LoopHead(TRUE, 0, "in-progress", ivrMappingData, req.callbackUrl,
                                sendProgressWebhook(webhooks, req.callbackUrl, "job_created", {}))
               ELSE /\ status' = "failed"
                    /\ error' = {AssetsErrMsg}
                    /\ updatedAt' = updatedAt + 2
                    /\ webhooks' = sendProgressWebhook(
                           sendProgressWebhook(webhooks, req.callbackUrl, "job_created", {}),
                           req.callbackUrl, "failed", {[error |-> AssetsErrMsg]})
                    /\ pc' = "done"
                    /\ UNCHANGED <<iterationCount, continueMapping, finalContext,
                                   ivrMappingData>>
            /\ ret' = Returned("startMapping", "ok")
            /\ UNCHANGED <<result, handleFields, timers,
                           mappingFile, calls, callCompletionPromise>>

\* cancelJob with the reject callbacks of all jobs in one shared place: it
\* rejects every promise that is pending.
cancelJobRejectsEveryHandle ==
    IF status \in Terminal
    THEN /\ ret' = Returned("cancelJob", "false")
         /\ UNCHANGED <<jobFields, handleFields, workflowLocals, timers,
                        mappingFile, webhooks, calls>>
    ELSE /\ status' = "cancelled"
         /\ updatedAt' = updatedAt + 1
         /\ webhooks' = sendProgressWebhook(webhooks, callbackUrl, "cancelled", {})
         /\ handles' = [h \in 1..Len(handles) |->
                           IF handles[h] = "pending" THEN "cancelled"
                           ELSE handles[h]]
         /\ callCompletionReject' = NoHandle
         /\ callCompletionResolve' = NoHandle
         /\ ret' = Returned("cancelJob", "true")
         /\ UNCHANGED <<request, callbackUrl, result, error, ivrMappingData,
                        workflowLocals, timers, mappingFile, calls>>

\* cancelJob that marks the job cancelled but leaves the pending promise alone.
cancelJobWithoutReject ==
    IF status \in Terminal
    THEN /\ ret' = Returned("cancelJob", "false")
         /\ UNCHANGED <<jobFields, handleFields, workflowLocals, timers,
                        mappingFile, webhooks, calls>>
    ELSE /\ status' = "cancelled"
         /\ updatedAt' = updatedAt + 1
         /\ webhooks' = sendProgressWebhook(webhooks, callbackUrl, "cancelled", {})
         /\ ret' = Returned("cancelJob", "true")
         /\ UNCHANGED <<request, callbackUrl, result, error, ivrMappingData,
                        handleFields, workflowLocals, timers, mappingFile, calls>>

\* cancelJob whose early return forgets the failed status.
cancelJobOverFailed ==
    IF status \in {"completed", "cancelled"}
    THEN /\ ret' = Returned("cancelJob", "false")
         /\ UNCHANGED <<jobFields, handleFields, workflowLocals, timers,
                        mappingFile, webhooks, calls>>
    ELSE /\ status' = "cancelled"
         /\ updatedAt' = updatedAt + 1
         /\ webhooks' = sendProgressWebhook(webhooks, callbackUrl, "cancelled", {})
         /\ IF callCompletionReject # NoHandle
            THEN /\ handles' = Settle(handles, callCompletionReject, "cancelled")
                 /\ callCompletionReject' = NoHandle
                 /\ callCompletionResolve' = NoHandle
            ELSE UNCHANGED handleFields
         /\ ret' = Returned("cancelJob", "true")
         /\ UNCHANGED <<request, callbackUrl, result, error, ivrMappingData,
                        workflowLocals, timers, mappingFile, calls>>

\* cancelJob()
cancelJob ==
    IF status \in Terminal
    THEN /\ ret' = Returned("cancelJob", "false")
         /\ UNCHANGED <<jobFields, handleFields, workflowLocals, timers,
                        mappingFile, webhooks, calls>>
    ELSE /\ status' = "cancelled"
         /\ updatedAt' = updatedAt + 1
         /\ webhooks' = sendProgressWebhook(webhooks, callbackUrl, "cancelled", {})
         /\ IF callCompletionReject # NoHandle
            THEN /\ handles' = Settle(handles, callCompletionReject, "cancelled")
                 /\ callCompletionReject' = NoHandle
                 /\ callCompletionResolve' = NoHandle
            ELSE UNCHANGED handleFields
         /\ ret' = Returned("cancelJob", "true")
         /\ UNCHANGED <<request, callbackUrl, result, error, ivrMappingData,
                        workflowLocals, timers, mappingFile, calls>>

\* notifyCallComplete that resolves but leaves the stored reject in place.
notifyCallCompleteKeepsReject ==
    /\ IF callCompletionResolve # NoHandle
       THEN /\ handles' = Settle(handles, callCompletionResolve, "fulfilled")
            /\ callCompletionResolve' = NoHandle
            /\ callCompletionReject' = callCompletionReject
       ELSE UNCHANGED handleFields
    /\ ret' = Returned("notifyCallComplete", "ok")
    /\ UNCHANGED <<jobFields, workflowLocals, timers, mappingFile, webhooks, calls>>

\* notifyCallComplete without the test of the stored resolve: calling
\* undefined throws a TypeError.
notifyCallCompleteUnguarded ==
    /\ IF callCompletionResolve # NoHandle
       THEN /\ handles' = Settle(handles, callCompletionResolve, "fulfilled")
            /\ callCompletionResolve' = NoHandle
            /\ callCompletionReject' = NoHandle
            /\ ret' = Returned("notifyCallComplete", "ok")
       ELSE /\ UNCHANGED handleFields
            /\ ret' = Returned("notifyCallComplete", "throws")
    /\ UNCHANGED <<jobFields, workflowLocals, timers, mappingFile, webhooks, calls>>

\* notifyCallComplete(sessionData)
notifyCallComplete ==
    /\ IF callCompletionResolve # NoHandle
       THEN /\ handles' = Settle(handles, callCompletionResolve, "fulfilled")
            /\ callCompletionResolve' = NoHandle
            /\ callCompletionReject' = NoHandle
       ELSE UNCHANGED handleFields
    /\ ret' = Returned("notifyCallComplete", "ok")
    /\ UNCHANGED <<jobFields, workflowLocals, timers, mappingFile, webhooks, calls>>

\* A timeout callback that rejects but keeps both stored callbacks.
TimerFiresKeepsRefs(t) ==
    /\ t \in timers
    /\ timers' = timers \ {t}
    /\ IF callCompletionReject # NoHandle
       THEN /\ handles' = Settle(handles, callCompletionReject, "timeout")
            /\ UNCHANGED <<callCompletionReject, callCompletionResolve>>
       ELSE UNCHANGED handleFields
    /\ ret' = Returned("timer", "ok")
    /\ UNCHANGED <<jobFields, workflowLocals, mappingFile, webhooks, calls>>

\* The setTimeout callback armed with handle t.
TimerFires(t) ==
    /\ t \in timers
    /\ timers' = timers \ {t}
    /\ IF callCompletionReject # NoHandle
       THEN /\ handles' = Settle(handles, callCompletionReject, "timeout")
            /\ callCompletionReject' = NoHandle
            /\ callCompletionResolve' = NoHandle
       ELSE UNCHANGED handleFields
    /\ ret' = Returned("timer", "ok")
    /\ UNCHANGED <<jobFields, workflowLocals, mappingFile, webhooks, calls>>

\* ------------------------------------------ processMapping continuations
\* An iteration that creates the promise and invokes the call initiator but
\* has not stored the promise's callbacks on the job by then.
ReadLegsReturnsRegistersLate ==
    /\ pc = "readLegs"
    /\ LET h == Len(handles) + 1
       IN  /\ handles' = Append(handles, "pending")
           /\ callCompletionResolve' = callCompletionResolve
           /\ callCompletionReject' = callCompletionReject
           /\ callCompletionPromise' = h
           /\ timers' = timers \cup {h}
    /\ webhooks' = sendProgressWebhook(
           sendProgressWebhook(webhooks, callbackUrl, "updating_context", {}),
           callbackUrl, "making_call", {})
    /\ calls' = calls + 1
    /\ pc' = "makeCall"
    /\ ret' = Returned("processMapping", "ok")
    /\ UNCHANGED <<jobFields, mappingFile, iterationCount, continueMapping,
                   finalContext>>

\* An iteration that creates the promise but never arms its timeout.
ReadLegsReturnsWithoutTimer ==
    /\ pc = "readLegs"
    /\ LET h == Len(handles) + 1
       IN  /\ handles' = Append(handles, "pending")
           /\ callCompletionResolve' = h
           /\ callCompletionReject' = h
           /\ callCompletionPromise' = h
           /\ timers' = timers
    /\ webhooks' = sendProgressWebhook(
           sendProgressWebhook(webhooks, callbackUrl, "updating_context", {}),
           callbackUrl, "making_call", {})
    /\ calls' = calls + 1
    /\ pc' = "makeCall"
    /\ ret' = Returned("processMapping", "ok")
    /\ UNCHANGED <<jobFields, mappingFile, iterationCount, continueMapping,
                   finalContext>>

\* await readLegs(...) returns: steps 4 and 5 up to the await of the call
\* initiator.  The promise is created and registered, its timer armed, and
\* makeOutboundCall invoked.
ReadLegsReturns ==
    /\ pc = "readLegs"
    /\ LET h == Len(handles) + 1
       IN  /\ handles' = Append(handles, "pending")
           /\ callCompletionResolve' = h
           /\ callCompletionReject' = h
           /\ callCompletionPromise' = h
           /\ timers' = timers \cup {h}
    /\ webhooks' = sendProgressWebhook(
           sendProgressWebhook(webhooks, callbackUrl, "updating_context", {}),
           callbackUrl, "making_call", {})
    /\ calls' = calls + 1
    /\ pc' = "makeCall"
    /\ ret' = Returned("processMapping", "ok")
    /\ UNCHANGED <<jobFields, mappingFile, iterationCount, continueMapping,
                   finalContext>>

\* An iteration that does not wait for the call to complete: after the
\* call_initiated webhook it goes straight back to the loop head.
StartNextIterationAtOnce ==
    /\ LoopHead(TRUE, iterationCount, status, ivrMappingData, callbackUrl,
                sendProgressWebhook(webhooks, callbackUrl, "call_initiated", {}))
    /\ UNCHANGED <<status, updatedAt, request, callbackUrl, result, error>>

\* What follows a successful makeOutboundCall: the call_initiated webhook,
\* then the await of the completion promise.
AwaitCallCompletion ==
    /\ webhooks' = sendProgressWebhook(webhooks, callbackUrl, "call_initiated", {})
    /\ pc' = "awaitHandle"
    /\ UNCHANGED <<jobFields, iterationCount, continueMapping, finalContext>>

\* A workflow that answers a failed call initiation by placing the call again.
MakeCallReturnsWithRetry(ok) ==
    /\ pc = "makeCall"
    /\ IF ok
       THEN AwaitCallCompletion /\ calls' = calls
       ELSE /\ calls' = calls + 1
            /\ UNCHANGED <<jobFields, webhooks, pc, iterationCount,
                           continueMapping, finalContext>>
    /\ ret' = Returned("makeOutboundCall", IF ok THEN "ok" ELSE "rejects")
    /\ UNCHANGED <<handleFields, timers, mappingFile, callCompletionPromise>>

\* await makeOutboundCall(...) returns a call, or rejects.
MakeCallReturns(ok) ==
    /\ pc = "makeCall"
    /\ IF ok
       THEN AwaitCallCompletion
       ELSE /\ CatchError(CallErrMsg, callbackUrl, webhooks)
            /\ UNCHANGED <<request, callbackUrl, result, ivrMappingData,
                           iterationCount, continueMapping, finalContext>>
    /\ ret' = Returned("makeOutboundCall", IF ok THEN "ok" ELSE "rejects")
    /\ UNCHANGED <<handleFields, timers, mappingFile, calls,
                   callCompletionPromise>>

\* await callCompletionPromise resumes once the promise is settled:
\* fulfilled goes on to syncMappingDataFromFile, rejected to the catch block.
AwaitResumes ==
    /\ pc = "awaitHandle"
    /\ handles[callCompletionPromise] # "pending"
    /\ IF handles[callCompletionPromise] = "fulfilled"
       THEN /\ pc' = "sync"
            /\ UNCHANGED <<status, error, updatedAt, webhooks>>
       ELSE CatchError(RejectionMessage(handles[callCompletionPromise]),
                       callbackUrl, webhooks)
    /\ ret' = Returned("processMapping", "ok")
    /\ UNCHANGED <<request, callbackUrl, result, ivrMappingData, handleFields,
                   timers, mappingFile, calls, iterationCount, continueMapping,
                   callCompletionPromise, finalContext>>

\* A resync whose read failure is not caught: it reaches the catch block of
\* processMapping.
EvaluateOutcomeRethrows(continue) ==
    /\ pc = "sync"
    /\ IF mappingFile.readable
       THEN /\ LoopHead(continue, iterationCount, status,
                        syncMappingDataFromFile(ivrMappingData, mappingFile),
                        callbackUrl,
                        sendProgressWebhook(webhooks, callbackUrl,
                                            "evaluating_outcome", {}))
            /\ UNCHANGED <<status, updatedAt, error>>
       ELSE /\ CatchError("ENOENT", callbackUrl, webhooks)
            /\ UNCHANGED <<ivrMappingData, iterationCount, continueMapping,
                           finalContext>>
    /\ ret' = Returned("processMapping", "ok")
    /\ UNCHANGED <<request, callbackUrl, result, handleFields, timers,
                   mappingFile, calls, callCompletionPromise>>

\* A step 6 that posts no evaluating_outcome webhook.
EvaluateOutcomeUnannounced(continue) ==
    /\ pc = "sync"
    /\ LoopHead(continue, iterationCount, status,
                syncMappingDataFromFile(ivrMappingData, mappingFile), callbackUrl,
                webhooks)
    /\ ret' = Returned("processMapping", "ok")
    /\ UNCHANGED <<status, updatedAt, request, callbackUrl, result, error,
                   handleFields, timers, mappingFile, calls,
                   callCompletionPromise>>

\* await syncMappingDataFromFile() returns: step 6 assigns the decision
\* `continue` to continueMapping, then the loop head runs.
EvaluateOutcome(continue) ==
    /\ pc = "sync"
    /\ LoopHead(continue, iterationCount, status,
                syncMappingDataFromFile(ivrMappingData, mappingFile), callbackUrl,
                sendProgressWebhook(webhooks, callbackUrl, "evaluating_outcome", {}))
    /\ ret' = Returned("processMapping", "ok")
    /\ UNCHANGED <<status, updatedAt, request, callbackUrl, result, error,
                   handleFields, timers, mappingFile, calls,
                   callCompletionPromise>>

\* A step 6 that asks for another iteration every time.
SyncReturnsAndContinues == EvaluateOutcome(TRUE)

\* Step 6 as the code has it: continueMapping = false after every iteration.
SyncReturns == EvaluateOutcome(FALSE)

\* await buildFinalContext(...) returns: loadIvrMapping is called.
BuildReturns ==
    /\ pc = "build"
    /\ pc' = "load"
    /\ ret' = Returned("processMapping", "ok")
    /\ UNCHANGED <<jobFields, handleFields, timers, mappingFile, webhooks,
                   calls, iterationCount, continueMapping,
                   callCompletionPromise, finalContext>>

\* await loadIvrMapping() returns: updateJobResult and the completed webhook.
LoadReturns ==
    /\ pc = "load"
    /\ status' = "completed"
    /\ result' = {[context |-> finalContext,
                   ivrMapping |-> loadIvrMapping(ivrMappingData, mappingFile)]}
    /\ updatedAt' = updatedAt + 1
    /\ webhooks' = sendProgressWebhook(webhooks, callbackUrl, "completed",
                                      {[result |-> r] : r \in result'})
    /\ pc' = "done"
    /\ ret' = Returned("processMapping", "ok")
    /\ UNCHANGED <<request, callbackUrl, error, ivrMappingData, handleFields,
                   timers, mappingFile, calls, iterationCount, continueMapping,
                   callCompletionPromise, finalContext>>

\* ------------------------------------------------------------ environment
\* The mapping file is rewritten while the job runs: by the call session
\* through its write tool, or by any other writer of the same file, which no
\* lock keeps out.
CallWritesMappingFile(content) ==
    /\ pc \notin {"new", "done"}
    /\ content # mappingFile
    /\ mappingFile' = content
    /\ ret' = Returned("callSession", "ok")
    /\ UNCHANGED <<jobFields, handleFields, workflowLocals, timers, webhooks,
                   calls>>

\* ------------------------------------------------------------------- Next
\* The job is known to its callers, by the id its submission returned.
Submitted == pc # "new"

\* An armed timeout callback runs.  Every timer is armed with the same
\* delay, so the callbacks run in the order they were armed.
TimerExpires ==
    \E t \in timers :
        (\A u \in timers : t <= u) /\ TimerFires(t) /\ UNCHANGED toolVars

\* The steps of one job leave the arrays of other callers alone.
WorkflowStep ==
    \/ ReadLegsReturns /\ UNCHANGED toolVars
    \/ \E ok \in BOOLEAN : MakeCallReturns(ok) /\ UNCHANGED toolVars
    \/ AwaitResumes /\ UNCHANGED toolVars
    \/ SyncReturns /\ UNCHANGED toolVars
    \/ BuildReturns /\ UNCHANGED toolVars
    \/ LoadReturns /\ UNCHANGED toolVars

Next ==
    \/ \E req \in Requests, assetsOk \in BOOLEAN :
          startMapping(req, assetsOk) /\ UNCHANGED toolVars
    \/ Submitted /\ cancelJob /\ UNCHANGED toolVars
    \/ Submitted /\ notifyCallComplete /\ UNCHANGED toolVars
    \/ TimerExpires
    \/ \E content \in FileContents :
          CallWritesMappingFile(content) /\ UNCHANGED toolVars
    \/ WorkflowStep

Spec == Init /\ [][Next]_vars

\* The workflow under any stopping policy: step 6 may decide either way.
EvaluateAnyOutcome == \E continue \in BOOLEAN : EvaluateOutcome(continue)

AnyPolicyNext ==
    \/ \E req \in Requests, assetsOk \in BOOLEAN :
          startMapping(req, assetsOk) /\ UNCHANGED toolVars
    \/ Submitted /\ cancelJob /\ UNCHANGED toolVars
    \/ Submitted /\ notifyCallComplete /\ UNCHANGED toolVars
    \/ TimerExpires
    \/ \E content \in FileContents :
          CallWritesMappingFile(content) /\ UNCHANGED toolVars
    \/ ReadLegsReturns /\ UNCHANGED toolVars
    \/ \E ok \in BOOLEAN : MakeCallReturns(ok) /\ UNCHANGED toolVars
    \/ AwaitResumes /\ UNCHANGED toolVars
    \/ EvaluateAnyOutcome /\ UNCHANGED toolVars
    \/ BuildReturns /\ UNCHANGED toolVars
    \/ LoadReturns /\ UNCHANGED toolVars

AnyPolicySpec == Init /\ [][AnyPolicyNext]_vars

\* The event loop runs every ready continuation, each collaborator call
\* returns or fails, and an armed timer fires.  Nothing obliges the outside
\* world to call cancelJob or notifyCallComplete.
FairSpec ==
    /\ Spec
    /\ WF_vars(WorkflowStep)
    /\ WF_vars(TimerExpires)

TypeOK ==
    /\ status \in JobStatus
    /\ updatedAt \in Nat
    /\ callCompletionResolve \in 0..Len(handles)
    /\ callCompletionReject \in 0..Len(handles)
    /\ timers \subseteq 1..Len(handles)
    /\ pc \in {"new", "readLegs", "makeCall", "awaitHandle", "sync", "build",
               "load", "done"}
    /\ iterationCount \in 0..maxIterations

\* ------------------------------------------------ cancelJob, by statement
\* cancelJob holds no await: once called it runs to its return and no other
\* callback runs in between.  Its statements, in the order the code has them.

\* The test of the status and, on a job that is not finished, the
\* assignments to status and updatedAt.
CancelJobSetsStatus ==
    /\ cancelPc = "idle"
    /\ IF status \in Terminal
       THEN /\ ret' = Returned("cancelJob", "false")
            /\ UNCHANGED <<status, updatedAt, cancelPc>>
       ELSE /\ status' = "cancelled"
            /\ updatedAt' = updatedAt + 1
            /\ cancelPc' = "notify"
            /\ ret' = ret
    /\ UNCHANGED <<request, callbackUrl, result, error, ivrMappingData,
                   handleFields, workflowLocals, timers, mappingFile,
                   webhooks, calls, completedPaths, legsFile, writeVars, other>>

\* this.sendProgressWebhook('cancelled', ...)
CancelJobNotifies ==
    /\ cancelPc = "notify"
    /\ webhooks' = sendProgressWebhook(webhooks, callbackUrl, "cancelled", {})
    /\ cancelPc' = "reject"
    /\ UNCHANGED <<jobFields, handleFields, workflowLocals, timers,
                   mappingFile, calls, completedPaths, legsFile, writeVars,
                   other, ret>>

\* The rejection of the pending promise, when there is one, and return true.
CancelJobRejects ==
    /\ cancelPc = "reject"
    /\ IF callCompletionReject # NoHandle
       THEN /\ handles' = Settle(handles, callCompletionReject, "cancelled")
            /\ callCompletionReject' = NoHandle
            /\ callCompletionResolve' = NoHandle
       ELSE UNCHANGED handleFields
    /\ cancelPc' = "idle"
    /\ ret' = Returned("cancelJob", "true")
    /\ UNCHANGED <<jobFields, workflowLocals, timers, mappingFile, webhooks,
                   calls, completedPaths, legsFile, writeVars, other>>

\* The job with cancelJob looked at statement by statement: nothing else
\* runs while a call of cancelJob stands between two of its statements.
CancelStepsNext ==
    \/ /\ cancelPc = "idle"
       /\ \E req \in Requests, assetsOk \in BOOLEAN :
             startMapping(req, assetsOk) /\ UNCHANGED toolVars
    \/ Submitted /\ CancelJobSetsStatus
    \/ CancelJobNotifies
    \/ CancelJobRejects
    \/ cancelPc = "idle" /\ Submitted /\ notifyCallComplete /\ UNCHANGED toolVars
    \/ cancelPc = "idle" /\ TimerExpires
    \/ /\ cancelPc = "idle"
       /\ \E content \in FileContents :
             CallWritesMappingFile(content) /\ UNCHANGED toolVars
    \/ cancelPc = "idle" /\ WorkflowStep

CancelStepsSpec == Init /\ [][CancelStepsNext]_vars

\* --------------------------------------------------------------- two jobs
\* A second IvrMappingService runs beside the job.  Its fields are its own,
\* and so are the timers it arms; the promises both jobs create are objects
\* of the one heap, `handles`.  Of its workflow the steps that touch its
\* completion handle are kept, and steps 6 to 8 are one step.

\* Everything that is not the second job's, but for the heap of promises.
thisJob == <<jobFields, callCompletionResolve, callCompletionReject,
             workflowLocals, timers, mappingFile, webhooks, calls,
             completedPaths, legsFile, writeVars, cancelPc>>

\* startMapping on the second job, up to the first await of its workflow.
OtherStartMapping ==
    /\ other.pc = "new"
    /\ other' = [other EXCEPT !.status = "in-progress", !.pc = "readLegs"]
    /\ ret' = Returned("other.startMapping", "ok")
    /\ UNCHANGED <<thisJob, handles>>

\* Its iteration creates and registers its promise, arms the timer and
\* awaits the call initiator.
OtherReadLegsReturns ==
    /\ other.pc = "readLegs"
    /\ LET h == Len(handles) + 1
       IN  /\ handles' = Append(handles, "pending")
           /\ other' = [other EXCEPT !.callCompletionResolve = h,
                                     !.callCompletionReject = h,
                                     !.callCompletionPromise = h,
                                     !.timers = @ \cup {h},
                                     !.pc = "makeCall"]
    /\ ret' = Returned("other.processMapping", "ok")
    /\ UNCHANGED thisJob

\* Its call initiator returns a call, or rejects and the catch block runs.
OtherMakeCallReturns(ok) ==
    /\ other.pc = "makeCall"
    /\ other' = IF ok THEN [other EXCEPT !.pc = "awaitHandle"]
                ELSE [other EXCEPT !.status = "failed", !.error = {CallErrMsg},
                                   !.pc = "done"]
    /\ ret' = Returned("other.makeOutboundCall", IF ok THEN "ok" ELSE "rejects")
    /\ UNCHANGED <<thisJob, handles>>

\* Its await of the promise resumes: fulfilled, the workflow runs on to
\* updateJobResult; rejected, to updateJobError.
OtherAwaitResumes ==
    /\ other.pc = "awaitHandle"
    /\ handles[other.callCompletionPromise] # "pending"
    /\ other' = IF handles[other.callCompletionPromise] = "fulfilled"
                THEN [other EXCEPT !.status = "completed",
                                   !.result = {"result"}, !.pc = "done"]
                ELSE [other EXCEPT
                         !.status = "failed",
                         !.error = {RejectionMessage(
                                        handles[other.callCompletionPromise])},
                         !.pc = "done"]
    /\ ret' = Returned("other.processMapping", "ok")
    /\ UNCHANGED <<thisJob, handles>>

\* cancelJob() on the second job.
OtherCancelJob ==
    /\ other.pc # "new"
    /\ IF other.status \in Terminal
       THEN /\ ret' = Returned("other.cancelJob", "false")
            /\ UNCHANGED <<other, handles>>
       ELSE /\ handles' = IF other.callCompletionReject # NoHandle
                          THEN Settle(handles, other.callCompletionReject,
                                      "cancelled")
                          ELSE handles
            /\ other' = [other EXCEPT !.status = "cancelled",
                                      !.callCompletionReject = NoHandle,
                                      !.callCompletionResolve = NoHandle]
            /\ ret' = Returned("other.cancelJob", "true")
    /\ UNCHANGED thisJob

\* notifyCallComplete(sessionData) on the second job.
OtherNotifyCallComplete ==
    /\ other.pc # "new"
    /\ IF other.callCompletionResolve # NoHandle
       THEN /\ handles' = Settle(handles, other.callCompletionResolve,
                                 "fulfilled")
            /\ other' = [other EXCEPT !.callCompletionReject = NoHandle,
                                      !.callCompletionResolve = NoHandle]
       ELSE UNCHANGED <<other, handles>>
    /\ ret' = Returned("other.notifyCallComplete", "ok")
    /\ UNCHANGED thisJob

\* The setTimeout callback the second job armed with handle t.
OtherTimerFires(t) ==
    /\ t \in other.timers
    /\ IF other.callCompletionReject # NoHandle
       THEN /\ handles' = Settle(handles, other.callCompletionReject, "timeout")
            /\ other' = [other EXCEPT !.timers = @ \ {t},
                                      !.callCompletionReject = NoHandle,
                                      !.callCompletionResolve = NoHandle]
       ELSE /\ other' = [other EXCEPT !.timers = @ \ {t}]
            /\ handles' = handles
    /\ ret' = Returned("other.timer", "ok")
    /\ UNCHANGED thisJob

OtherJobStep ==
    \/ OtherStartMapping
    \/ OtherReadLegsReturns
    \/ \E ok \in BOOLEAN : OtherMakeCallReturns(ok)
    \/ OtherAwaitResumes
    \/ OtherCancelJob
    \/ OtherNotifyCallComplete
    \/ \E t \in other.timers : OtherTimerFires(t)

\* Both jobs run, and their operations and continuations interleave.
TwoJobsNext ==
    \/ Next
    \/ OtherJobStep

TwoJobsSpec == Init /\ [][TwoJobsNext]_vars

\* ------------------------------------------------------- planner callers
\* Everything of the job, which a call of the planner never touches.
jobVars == <<jobFields, handleFields, workflowLocals, timers, mappingFile,
             webhooks, calls, besideVars>>

\* Every path the three scans try, in the order they try them, after root.
CanonicalOrder ==
    <<root>>
        \o [i \in 1..MaxDigit |-> <<i>>]
        \o [k \in 1..(MaxDigit * MaxDigit) |->
               <<((k - 1) \div MaxDigit) + 1, ((k - 1) % MaxDigit) + 1>>]
        \o [k \in 1..(MaxDigit * MaxDigit * MaxDigit) |->
               <<((k - 1) \div (MaxDigit * MaxDigit)) + 1,
                 (((k - 1) \div MaxDigit) % MaxDigit) + 1,
                 ((k - 1) % MaxDigit) + 1>>]

NumPaths == Len(CanonicalOrder)

\* Arrays a caller can hand to the planner: the first n paths of the
\* canonical order, possibly with one path taken out, with up to MaxExtra
\* deeper paths added, in exploration order or the other way round.  n runs
\* over every length up to the first three-digit paths, then over the
\* lengths at which the first digit of the three-digit scan changes, and
\* the lengths at which one path or none is left.
Explored(n) == SubSeq(CanonicalOrder, 1, n)
Without(array, k) ==
    IF k > Len(array) THEN array
    ELSE [i \in 1..(Len(array) - 1) |-> IF i < k THEN array[i] ELSE array[i + 1]]
Reverse(array) == [i \in 1..Len(array) |-> array[Len(array) + 1 - i]]
DeeperPaths(e) == [i \in 1..e |-> <<1, 1, 1, i>>]
HolePositions == {1, 2, MaxDigit + 2, MaxDigit * MaxDigit + MaxDigit + 2}

FirstThreeDigit == MaxDigit * MaxDigit + MaxDigit + 2
PrefixLengths ==
    (0..(FirstThreeDigit + 1))
        \cup {FirstThreeDigit - 1 + f * MaxDigit * MaxDigit : f \in 1..(MaxDigit - 1)}
        \cup {NumPaths - 1, NumPaths}

PlannerInputs ==
    LET holed == {Explored(n) : n \in PrefixLengths}
                    \cup {Without(Explored(n), k) :
                            n \in HolePositions \cup {NumPaths}, k \in HolePositions}
        extended == {a \o DeeperPaths(e) : a \in holed, e \in 0..MaxExtra}
    IN  extended \cup {Reverse(a) : a \in extended}

PlannerInit ==
    /\ constructor
    /\ mappingFile = NoFile
    /\ legsFile = NoFile
    /\ NoWrites
    /\ completedPaths \in PlannerInputs

\* A caller runs generateNextPath of read_legs.ts on its array.
CallGenerateNextPath ==
    /\ ret' = Returned("generateNextPath", generateNextPath(completedPaths))
    /\ UNCHANGED <<completedPaths, legsFile, writeVars, jobVars>>

\* A caller runs the leg form's generateNextPath on its array.
CallGenerateNextPathLegs ==
    /\ ret' = Returned("generateNextPathLegs",
                       generateNextPathLegs(completedPaths).value)
    /\ completedPaths' = generateNextPathLegs(completedPaths).completedPaths
    /\ UNCHANGED <<legsFile, writeVars, jobVars>>

PlannerNext ==
    \/ CallGenerateNextPath
    \/ CallGenerateNextPathLegs

PlannerSpec == PlannerInit /\ [][PlannerNext]_vars

\* ----------------------------------------------------- read_legs callers
\* The arguments a caller passes: a status filter or none, a target path or
\* none, and for the menu-step form its own array or none.
ReadLegsArguments ==
    [filterStatus : {"ALL", "COMPLETED"}, targetPath : {{}, {<<1>>}},
     inMemoryData : BOOLEAN]

\* Ledgers of menu steps, in any order, and ledgers of legs, each leg number
\* once, in any order: no operation writes the file the leg form reads.
StepLedgers ==
    UNION {[1..n -> [menuPath : {root, <<1>>}, dtmfSent : {""},
                     status : {"COMPLETED", "IN_PROGRESS"}]] : n \in 0..MaxSteps}

LegLedgers ==
    {l \in UNION {[1..n -> [legNumber : 1..MaxSteps, path : {<<1>>, <<2>>},
                            status : {"COMPLETED", "IN_PROGRESS"},
                            nextTarget : {{}, {<<2>>}}]] : n \in 0..MaxSteps} :
        \A i, j \in 1..Len(l) : i # j => l[i].legNumber # l[j].legNumber}

FilesOf(ledgers) == {NoFile} \cup {[readable |-> TRUE, steps |-> l] : l \in ledgers}

\* One of the three stores holds a ledger; the tool is then called on it.
ReadInit ==
    /\ constructor
    /\ completedPaths = << >>
    /\ \/ mappingFile \in FilesOf(StepLedgers) /\ legsFile = NoFile
       \/ mappingFile = NoFile /\ legsFile \in FilesOf(LegLedgers)
    /\ NoWrites

Called(op, args, value) == [op |-> op, args |-> args, value |-> value]

\* The caller of the menu-step form holds some steps in memory.  The leg
\* form takes no array from its caller.
HoldsSteps(steps) ==
    /\ pc = "new"
    /\ legsFile = NoFile
    /\ ivrMappingData = << >>
    /\ steps # << >>
    /\ ivrMappingData' = steps
    /\ ret' = Returned("constructor", "ok")
    /\ UNCHANGED <<status, updatedAt, request, callbackUrl, result, error,
                   handleFields, workflowLocals, timers, mappingFile, webhooks,
                   calls, toolVars>>

ReadLegs(args) ==
    /\ LET read == readLegs(args, ivrMappingData, mappingFile)
       IN  /\ ret' = Called("readLegs", args, read.response)
           /\ ivrMappingData' = read.inMemoryData
           /\ completedPaths' = read.response.completedPaths
    /\ UNCHANGED <<status, updatedAt, request, callbackUrl, result, error,
                   handleFields, workflowLocals, timers, mappingFile, webhooks,
                   calls, legsFile, writeVars, besideVars>>

ReadLegsLegs(args) ==
    /\ ~args.inMemoryData
    /\ LET response == readLegsLegs(args, legsFile)
       IN  /\ ret' = Called("readLegsLegs", args, response)
           /\ completedPaths' = response.completedPaths
    /\ UNCHANGED <<jobVars, legsFile, writeVars>>

ReadNext ==
    \/ \E steps \in StepLedgers : HoldsSteps(steps)
    \/ \E args \in ReadLegsArguments : ReadLegs(args)
    \/ \E args \in ReadLegsArguments : ReadLegsLegs(args)

ReadSpec == ReadInit /\ [][ReadNext]_vars

\* ------------------------------------------------------------- write_legs
\* Arguments that pass every test of a required parameter.  path and
\* nextTarget are {} when not given.
ValidArguments ==
    [legNumber : 1..MaxLegs, path : {{<<1>>}}, menuSequence : {TRUE},
     finalOutcome : {"transfer", "voicemail"}, status : {"COMPLETED"},
     nextTarget : {{}}]

\* Arguments that lack one required parameter.  A leg number of 0, an empty
\* string and a missing field all fail the tests !functionArguments.x.
InvalidArguments ==
    LET args == [legNumber |-> 1, path |-> {<<1>>}, menuSequence |-> TRUE,
                 finalOutcome |-> "transfer", status |-> "COMPLETED",
                 nextTarget |-> {}]
    IN  {[args EXCEPT !.legNumber = 0], [args EXCEPT !.path = {}],
         [args EXCEPT !.menuSequence = FALSE], [args EXCEPT !.finalOutcome = ""],
         [args EXCEPT !.status = ""]}

\* Arguments a caller passes to write_legs.
WriteLegsArguments == ValidArguments \cup InvalidArguments

MkdirErrMsg == "mkdir failed"
WriteErrMsg == "writeFile failed"

\* The validation at the head of write_legs: the message of the error it
\* throws, or nothing when every required parameter is there.
RequiredParameterMissing(args) ==
    IF args.legNumber = 0 THEN {"legNumber parameter is required"}
    ELSE IF args.path = {} THEN {"path parameter is required"}
    ELSE IF ~args.menuSequence
         THEN {"menuSequence parameter is required and must be an array"}
    ELSE IF args.finalOutcome = "" THEN {"finalOutcome parameter is required"}
    ELSE IF args.status = "" THEN {"status parameter is required"}
    ELSE {}

\* The entry write_legs builds from its arguments and the time of the call.
LegDataOf(args, date) ==
    [legNumber |-> args.legNumber,
     path |-> CHOOSE p \in args.path : TRUE,
     explorationDate |-> date,
     menuSequence |-> args.menuSequence,
     finalOutcome |-> args.finalOutcome,
     status |-> args.status,
     nextTarget |-> args.nextTarget]

\* An update that always pushes the entry, whether or not its number is there.
upsertAlwaysPushes(existingData, legData) ==
    LET updated == Append(existingData, legData)
    IN  sortWith(updated, LegNumberBefore(updated))

\* The update of the loaded array: the entry replaces the first one that has
\* its leg number, or is pushed at the end, and the array is sorted by leg
\* number.
upsert(existingData, legData) ==
    LET found == {i \in 1..Len(existingData) :
                    existingData[i].legNumber = legData.legNumber}
        updated == IF found # {}
                   THEN [existingData EXCEPT ![Min(found)] = legData]
                   ELSE Append(existingData, legData)
    IN  sortWith(updated, LegNumberBefore(updated))

\* What the catch block returns.
errorResponse(args, message) ==
    [success |-> FALSE, message |-> message, legNumber |-> args.legNumber]

\* What write_legs returns after writeFile has resolved.
response(args) ==
    [success |-> TRUE, message |-> "documented", legNumber |-> args.legNumber]

\* What a call of fs.writeFile can come to: the file holds the new content;
\* the file could not be opened and is as it was; or the file was opened,
\* which empties it, and the write then failed.
WriteOutcomes == {"written", "refused", "truncated"}

\* The clock moves on.
Tick ==
    /\ clock < MaxClock
    /\ clock' = clock + 1
    /\ ret' = Returned("clock", clock + 1)
    /\ UNCHANGED <<explorationLegs, writers, completedPaths, legsFile, jobVars>>

\* write_legs up to its first await: the required parameters are tested,
\* and mkdir is called when none is missing.
writeLegs(w, args) ==
    /\ writers[w].pc = "idle"
    /\ IF RequiredParameterMissing(args) # {}
       THEN LET thrown == CHOOSE m \in RequiredParameterMissing(args) : TRUE
            IN  /\ ret' = Called("writeLegs", args, errorResponse(args, thrown))
                /\ writers' = [writers EXCEPT ![w] =
                                  Answered(args, errorResponse(args, thrown))]
       ELSE /\ ret' = Called("mkdir", args, "pending")
            /\ writers' = [writers EXCEPT ![w] = [pc |-> "mkdir", args |-> args]]
    /\ UNCHANGED <<explorationLegs, clock, completedPaths, legsFile, jobVars>>

\* mkdir settles: the entry is built with the time it is now, and readFile
\* is called; a rejected mkdir goes to the catch block.
MkdirReturns(w, ok) ==
    /\ writers[w].pc = "mkdir"
    /\ LET args == writers[w].args
       IN  IF ok
           THEN /\ writers' = [writers EXCEPT ![w] =
                                 [pc |-> "readFile", args |-> args,
                                  legData |-> LegDataOf(args, clock)]]
                /\ ret' = Called("readFile", args, "pending")
           ELSE /\ writers' = [writers EXCEPT ![w] =
                                 Answered(args, errorResponse(args, MkdirErrMsg))]
                /\ ret' = Called("writeLegs", args, errorResponse(args, MkdirErrMsg))
    /\ UNCHANGED <<explorationLegs, clock, completedPaths, legsFile, jobVars>>

\* A read whose result is thrown away: the update starts from an empty array.
ReadFileReturnsNothing(w) ==
    /\ writers[w].pc = "readFile"
    /\ writers' = [writers EXCEPT ![w] =
                     [pc |-> "writeFile", args |-> writers[w].args,
                      existingData |-> upsert(<< >>, writers[w].legData)]]
    /\ ret' = Called("writeFile", writers[w].args, "pending")
    /\ UNCHANGED <<explorationLegs, clock, completedPaths, legsFile, jobVars>>

\* readFile settles: a file that cannot be read or parsed counts as an empty
\* array; the entry is put into the array, the array is sorted and
\* serialised, and writeFile is called with it.
ReadFileReturns(w) ==
    /\ writers[w].pc = "readFile"
    /\ LET args == writers[w].args
           existingData == IF explorationLegs.readable
                           THEN explorationLegs.steps ELSE << >>
       IN  /\ writers' = [writers EXCEPT ![w] =
                            [pc |-> "writeFile", args |-> args,
                             existingData |-> upsert(existingData, writers[w].legData)]]
           /\ ret' = Called("writeFile", args, "pending")
    /\ UNCHANGED <<explorationLegs, clock, completedPaths, legsFile, jobVars>>

\* A write that takes the file as it is now, puts the entry of the call into
\* it and stores that, as a writer holding a lock on the file would.
WriteFileReturnsMerged(w, outcome) ==
    /\ writers[w].pc = "writeFile"
    /\ LET args == writers[w].args
           returned == IF outcome = "written" THEN response(args)
                       ELSE errorResponse(args, WriteErrMsg)
           own == CHOOSE e \in {writers[w].existingData[i] :
                                  i \in 1..Len(writers[w].existingData)} :
                     e.legNumber = args.legNumber
           current == IF explorationLegs.readable
                      THEN explorationLegs.steps ELSE << >>
       IN  /\ explorationLegs' =
                CASE outcome = "written" ->
                       [readable |-> TRUE, steps |-> upsert(current, own)]
                  [] outcome = "refused" -> explorationLegs
                  [] outcome = "truncated" -> NoFile
           /\ ret' = Called("writeLegs", args, returned)
           /\ writers' = [writers EXCEPT ![w] = Answered(args, returned)]
    /\ UNCHANGED <<clock, completedPaths, legsFile, jobVars>>

\* writeFile settles, and write_legs returns.
WriteFileReturns(w, outcome) ==
    /\ writers[w].pc = "writeFile"
    /\ LET args == writers[w].args
           returned == IF outcome = "written" THEN response(args)
                       ELSE errorResponse(args, WriteErrMsg)
       IN  /\ explorationLegs' =
                CASE outcome = "written" ->
                       [readable |-> TRUE, steps |-> writers[w].existingData]
                  [] outcome = "refused" -> explorationLegs
                  [] outcome = "truncated" -> NoFile
           /\ ret' = Called("writeLegs", args, returned)
           /\ writers' = [writers EXCEPT ![w] = Answered(args, returned)]
    /\ UNCHANGED <<clock, completedPaths, legsFile, jobVars>>

\* No ledger was written yet: the file is absent, or holds an empty array.
WriteInit ==
    /\ constructor
    /\ mappingFile = NoFile
    /\ legsFile = NoFile
    /\ completedPaths = << >>
    /\ explorationLegs \in {NoFile, [readable |-> TRUE, steps |-> << >>]}
    /\ writers = [w \in Writers |-> Idle]
    /\ clock = 0

\* Calls of write_legs made one after the other: a call is made when no
\* other call is running.
SequentialWriteNext ==
    \/ \E w \in Writers, args \in WriteLegsArguments :
          (\A v \in Writers : writers[v].pc = "idle") /\ writeLegs(w, args)
    \/ \E w \in Writers, ok \in BOOLEAN : MkdirReturns(w, ok)
    \/ \E w \in Writers : ReadFileReturns(w)
    \/ \E w \in Writers, outcome \in WriteOutcomes : WriteFileReturns(w, outcome)
    \/ Tick

SequentialWriteSpec == WriteInit /\ [][SequentialWriteNext]_vars

\* The arguments of the calls that run side by side.
ConcurrentArguments == {args \in ValidArguments : args.finalOutcome = "transfer"}

\* Calls of write_legs made at any time: each caller has at most one call
\* running, and the calls of the two callers interleave at their awaits.
ConcurrentWriteNext ==
    \/ \E w \in Writers, args \in ConcurrentArguments : writeLegs(w, args)
    \/ \E w \in Writers, ok \in BOOLEAN : MkdirReturns(w, ok)
    \/ \E w \in Writers : ReadFileReturns(w)
    \/ \E w \in Writers, outcome \in WriteOutcomes : WriteFileReturns(w, outcome)
    \/ Tick

ConcurrentWriteSpec == WriteInit /\ [][ConcurrentWriteNext]_vars

\* The workflow's resynchronisation of its view, run on its own.
Resynchronize ==
    /\ ivrMappingData' = syncMappingDataFromFile(ivrMappingData, mappingFile)
    /\ ret' = Returned("syncMappingDataFromFile", ivrMappingData')
    /\ UNCHANGED <<status, updatedAt, request, callbackUrl, result, error,
                   handleFields, workflowLocals, timers, mappingFile, webhooks,
                   calls, toolVars>>

\* The ledger is new in every place it is kept: the file write_legs writes,
\* the file the leg form of read_legs reads, and the mapping file, which
\* the call-execution collaborator may have filled.
RoundTripInit ==
    /\ constructor
    /\ mappingFile \in FileContents
    /\ legsFile \in {NoFile, [readable |-> TRUE, steps |-> << >>]}
    /\ completedPaths = << >>
    /\ explorationLegs \in {NoFile, [readable |-> TRUE, steps |-> << >>]}
    /\ writers = [w \in Writers |-> Idle]
    /\ clock = 0

\* Legs are documented one after the other, and between the calls the
\* ledger is loaded and the workflow's view is resynchronised.
RoundTripNext ==
    \/ \E w \in Writers, args \in ConcurrentArguments :
          (\A v \in Writers : writers[v].pc = "idle") /\ writeLegs(w, args)
    \/ \E w \in Writers, ok \in BOOLEAN : MkdirReturns(w, ok)
    \/ \E w \in Writers : ReadFileReturns(w)
    \/ \E w \in Writers, outcome \in WriteOutcomes : WriteFileReturns(w, outcome)
    \/ \E args \in ReadLegsArguments : ReadLegsLegs(args)
    \/ Resynchronize

RoundTripSpec == RoundTripInit /\ [][RoundTripNext]_vars

\* ------------------------------------------------------------- properties
Handles == 1..Len(handles)
Outstanding == callCompletionResolve # NoHandle \/ callCompletionReject # NoHandle
Notified(event) == callbackUrl # "" => (Len(webhooks) > 0 /\ webhooks[Len(webhooks)].event = event)

\* C1: once status is completed, failed or cancelled it keeps that value in
\* every later state.
TerminalStatusAbsorbing ==
    [][(status \in Terminal) => (status' = status)]_vars

\* C2: when the cancellation rejection is raised into the iteration that
\* awaits the completion handle, the job ends cancelled, not failed, and no
\* error string is recorded.
CancelWhileAwaitingEndsCancelled ==
    [][(/\ pc = "awaitHandle"
        /\ handles[callCompletionPromise] = "cancelled"
        /\ pc' = "done")
       => (status' = "cancelled" /\ error' = {})]_vars

\* C3: cancelJob with a handle outstanding rejects it with the cancellation
\* error and clears both stored callbacks; the handle stays rejected by
\* cancellation whatever fires later, and the awaiter is handed the
\* cancellation message, never the timeout message.
CancelRejectsOutstandingHandle ==
    [][/\ (/\ ret'.op = "cancelJob"
           /\ status \notin Terminal
           /\ callCompletionReject # NoHandle)
          => (/\ handles'[callCompletionReject] = "cancelled"
              /\ callCompletionReject' = NoHandle
              /\ callCompletionResolve' = NoHandle)
       /\ \A h \in Handles : handles[h] = "cancelled" => handles'[h] = "cancelled"
       /\ (/\ pc = "awaitHandle"
           /\ handles[callCompletionPromise] = "cancelled"
           /\ pc' # pc)
          => error' = {CancelMsg}]_vars

\* C3 witness: the handle was rejected by cancelJob, its timer fired
\* afterwards, and the awaiter recorded the cancellation message.
CancelThenTimerObserved ==
    /\ handles # << >>
    /\ handles[1] = "cancelled"
    /\ timers = {}
    /\ pc = "done"
    /\ error = {CancelMsg}

\* C4: a settled handle keeps its outcome under every later
\* notifyCallComplete, timer firing and cancelJob, the step that settles it
\* clears both stored callbacks, and a stored callback always belongs to a
\* handle that is still pending.
HandleSettlesOnce ==
    [][/\ \A h \in Handles :
            /\ handles[h] # "pending" => handles'[h] = handles[h]
            /\ (handles[h] = "pending" /\ handles'[h] # "pending")
               => (callCompletionResolve' = NoHandle /\ callCompletionReject' = NoHandle)
       /\ callCompletionResolve' # NoHandle => handles'[callCompletionResolve'] = "pending"
       /\ callCompletionReject' # NoHandle => handles'[callCompletionReject'] = "pending"]_vars

\* C4 witness: the handle was fulfilled first; the timer then fired and
\* cancelJob then ran, and the handle is still fulfilled.
FulfilledThenTimerAndCancel ==
    /\ handles # << >>
    /\ handles[1] = "fulfilled"
    /\ timers = {}
    /\ ret = Returned("cancelJob", "true")

\* C5: notifyCallComplete with no handle outstanding does not throw and
\* leaves status, result, error, the stored callbacks and every handle as
\* they were.
NotifyWithoutHandleIsNoOp ==
    [][(ret'.op = "notifyCallComplete" /\ callCompletionResolve = NoHandle)
       => (/\ ret'.value = "ok"
           /\ UNCHANGED <<status, updatedAt, result, error, handleFields,
                          webhooks, timers, workflowLocals>>)]_vars

\* C5 witness: notifyCallComplete returned after the timeout had already
\* rejected the handle.
LateNotifyAfterTimeout ==
    /\ ret = Returned("notifyCallComplete", "ok")
    /\ handles # << >>
    /\ handles[1] = "timeout"

\* C6: cancelJob on a job that is completed, failed or cancelled returns
\* false and changes neither status, updatedAt, result, error, the stored
\* callbacks, the handles nor the webhooks sent.
CancelTerminalIsNoOp ==
    [][(ret'.op = "cancelJob" /\ status \in Terminal)
       => (/\ ret'.value = "false"
           /\ UNCHANGED <<jobFields, handleFields, webhooks, timers,
                          workflowLocals, calls>>)]_vars

\* C6 witness: cancelJob returned false on a failed job.
CancelRefusedOnFailedJob ==
    /\ ret = Returned("cancelJob", "false")
    /\ status = "failed"

\* C7: a job never has more than one unsettled completion handle, and the
\* stored callbacks belong to it.
AtMostOneOutstandingHandle ==
    /\ Cardinality({h \in Handles : handles[h] = "pending"}) <= 1
    /\ \A h \in Handles : handles[h] = "pending" =>
           /\ callCompletionResolve \in {NoHandle, h}
           /\ callCompletionReject \in {NoHandle, h}

\* C7 witness: a handle is outstanding while the workflow awaits it.
HandleOutstandingWhileAwaited ==
    /\ pc = "awaitHandle"
    /\ callCompletionResolve = callCompletionPromise
    /\ handles[callCompletionPromise] = "pending"

\* C8 as stated: whenever the timer rejected the handle, the job ends failed
\* with the timeout message and a failed notification.
TimeoutAlwaysFailsWithTimeoutMessage ==
    (pc = "done" /\ \E h \in Handles : handles[h] = "timeout")
    => (status = "failed" /\ error = {TimeoutMsg} /\ Notified("failed"))

\* C8 amended: a timer that fires on an outstanding handle rejects it with
\* the timeout error and clears both stored callbacks; and when call
\* initiation had succeeded, the job ends failed with the timeout message as
\* its error and the failed notification as its last one.
TimeoutFailsJobAfterInitiation ==
    [][/\ (ret'.op = "timer" /\ ret' # ret /\ callCompletionReject # NoHandle)
          => (/\ handles'[callCompletionReject] = "timeout"
              /\ callCompletionReject' = NoHandle
              /\ callCompletionResolve' = NoHandle)
       /\ (/\ pc' = "done"
           /\ \E h \in 1..Len(handles') : handles'[h] = "timeout"
           /\ error' # {CallErrMsg})
          => (/\ status' = "failed"
              /\ error' = {TimeoutMsg}
              /\ callbackUrl' # "" => webhooks'[Len(webhooks')].event = "failed")]_vars

\* C8 witness: the timer won, and the job is failed with the timeout message
\* and a failed webhook.
TimedOutJobFailed ==
    /\ pc = "done"
    /\ handles # << >>
    /\ handles[1] = "timeout"
    /\ status = "failed"
    /\ error = {TimeoutMsg}
    /\ callbackUrl # ""
    /\ webhooks[Len(webhooks)].event = "failed"

AcceptedJobTerminates ==
    (pc # "new") ~> (pc = "done" /\ status \in Terminal)

\* C10 witness: the workflow finished although notifyCallComplete was never
\* called: the timer ended the wait.
FinishedWithoutNotify ==
    /\ pc = "done"
    /\ status \in Terminal
    /\ handles # << >>
    /\ handles[1] = "timeout"
    /\ timers = {}

\* C11: a job never starts more than maxIterations iterations and never
\* invokes the call initiator more often than it started iterations,
\* whichever way step 6 decides (AnyPolicySpec).
IterationsWithinCap ==
    /\ iterationCount <= maxIterations
    /\ calls <= iterationCount
    /\ Len(handles) <= iterationCount

\* C11 witness: step 6 asked for another iteration after the tenth, and
\* the cap ended the loop.
CapEndedLoop ==
    /\ iterationCount = maxIterations
    /\ calls = maxIterations
    /\ continueMapping
    /\ pc = "build"

\* C12: a startMapping call either throws and leaves the job, its stored
\* request, its workflow and its webhooks as they were, or it accepts a
\* request that has a phone number; a job whose stored request has no phone
\* number is still pending, unstarted and silent.
InvalidRequestHasNoEffect ==
    [][/\ (ret'.op = "startMapping" /\ ret' # ret)
          => \/ /\ ret'.value = "throws"
                /\ UNCHANGED <<jobFields, handleFields, workflowLocals,
                               timers, webhooks, calls>>
             \/ /\ ret'.value = "ok"
                /\ request'.phoneNumber # ""
       /\ request'.phoneNumber = ""
          => (/\ status' = "pending"
              /\ pc' = "new"
              /\ webhooks' = << >>
              /\ request' = request)]_vars

\* C12 witness: startMapping threw on a request without a phone number.
InvalidRequestRejected ==
    /\ ret = Returned("startMapping", "throws")
    /\ status = "pending"
    /\ pc = "new"
    /\ request.phoneNumber = ""

\* Some completion handle of the job was fulfilled by notifyCallComplete.
HandleFulfilled == \E h \in Handles : handles[h] = "fulfilled"

\* The job is completed and holds a result whose context is not empty.
CompletedWithContext ==
    /\ status = "completed"
    /\ \E r \in result : result = {r} /\ Len(r.context) > 0

\* The step that completes the job stores one result with a non-empty
\* context and the steps `view` as its ivrMapping, and the completed webhook,
\* when a callback URL is set, carries that result.
CompletesWith(view) ==
    (status' = "completed" /\ status # "completed")
       => \E r \in result' :
             /\ result' = {r}
             /\ Len(r.context) > 0
             /\ r.ivrMapping = view
             /\ callbackUrl # ""
                => webhooks' = Append(webhooks,
                       [event |-> "completed", data |-> {[result |-> r]}])

ResultAndErrorMatchStatus ==
    /\ (result # {}) <=> (status = "completed")
    /\ (error # {}) <=> (status = "failed")

\* C14 witness: a job failed by the timeout holds the error and no result,
\* also after a cancelJob that was refused.
FailedJobHoldsOnlyError ==
    /\ status = "failed"
    /\ error = {TimeoutMsg}
    /\ result = {}
    /\ ret = Returned("cancelJob", "false")

\* The events posted to the callback URL, in the order they were posted.
Events == [i \in 1..Len(webhooks) |-> webhooks[i].event]

\* The events processMapping can post right after event e.
FollowsInWorkflow(e) ==
    CASE e = "job_created" -> {"reading_mapping", "failed"}
      [] e = "reading_mapping" -> {"updating_context"}
      [] e = "updating_context" -> {"making_call"}
      [] e = "making_call" -> {"call_initiated", "failed"}
      [] e = "call_initiated" -> {"evaluating_outcome", "failed"}
      [] e = "evaluating_outcome" -> {"reading_mapping", "building_context"}
      [] e = "building_context" -> {"completed"}
      [] OTHER -> {}

WorkflowOrder(events) ==
    /\ Len(events) > 0 => events[1] = "job_created"
    /\ \A i \in 1..(Len(events) - 1) : events[i + 1] \in FollowsInWorkflow(events[i])

\* C16: as long as no cancelled event was posted, the events posted are in
\* workflow order: job_created, then per iteration reading_mapping,
\* updating_context, making_call, call_initiated, evaluating_outcome, then
\* building_context, then completed, with nothing after a failed event; and
\* the step that posts call_initiated is the return of the call initiator.
NotificationsInWorkflowOrder ==
    /\ []((\A i \in 1..Len(webhooks) : webhooks[i].event # "cancelled")
            => WorkflowOrder(Events))
    /\ [][(/\ Len(webhooks') > Len(webhooks)
           /\ webhooks'[Len(webhooks')].event = "call_initiated")
          => (pc = "makeCall" /\ ret' = Returned("makeOutboundCall", "ok"))]_vars

\* C16 witness: a job that was never cancelled ran two iterations and
\* completed, and all thirteen events were posted.
TwoIterationsNotified ==
    /\ iterationCount = 2
    /\ status = "completed"
    /\ Len(webhooks) = 13
    /\ webhooks[13].event = "completed"
    /\ \A i \in 1..Len(webhooks) : webhooks[i].event # "cancelled"

\* The paths an array holds.
Range(array) == {array[i] : i \in 1..Len(array)}

\* The paths of one, two and three digits.
SearchedPaths ==
    {<<a>> : a \in Digits}
        \cup {<<a, b>> : a, b \in Digits}
        \cup {<<a, b, c>> : a, b, c \in Digits}

\* The place of a searched path in the canonical order: shorter paths first,
\* paths of one length by their digits from the left.
Rank(p) ==
    CASE Len(p) = 1 -> p[1]
      [] Len(p) = 2 -> MaxDigit + (p[1] - 1) * MaxDigit + p[2]
      [] Len(p) = 3 -> MaxDigit + MaxDigit * MaxDigit
                          + (p[1] - 1) * MaxDigit * MaxDigit
                          + (p[2] - 1) * MaxDigit + p[3]

\* C17: generateNextPath returns root whenever the array is empty or lacks
\* root, whatever digit paths it holds; otherwise, while some path of one to
\* three digits is absent, it returns the absent one that comes first in the
\* canonical order, so that every path before the returned one is present.
NextPathFollowsCanonicalOrder ==
    [][ret'.op = "generateNextPath"
          => LET done == Range(completedPaths)
                 next == ret'.value
             IN  IF root \notin done THEN next = root
                 ELSE (SearchedPaths \ done # {})
                         => /\ next \in SearchedPaths \ done
                            /\ \A q \in SearchedPaths :
                                  Rank(q) < Rank(next) => q \in done]_vars

\* C17 witness: '1-1' was returned for an array that holds root, every digit
\* and the deeper path '1-1-1'.
ShallowerPathReturnedFirst ==
    /\ ret.op = "generateNextPath"
    /\ ret.value = <<1, 1>>
    /\ <<1, 1, 1>> \in Range(completedPaths)
    /\ root \in Range(completedPaths)

\* C18: when the array holds root and every path of one, two and three
\* digits, both forms of generateNextPath return '1-1-1-1'.
ExhaustedSearchReturnsFallback ==
    [][(/\ ret'.op \in {"generateNextPath", "generateNextPathLegs"}
        /\ root \in Range(completedPaths)
        /\ SearchedPaths \subseteq Range(completedPaths))
          => ret'.value = <<1, 1, 1, 1>>]_vars

\* C18 witness: '1-1-1-1' was returned for an array that holds root, all the
\* searched paths and '1-1-1-1' itself.
FallbackReturnedThoughCompleted ==
    /\ ret.op = "generateNextPath"
    /\ ret.value = <<1, 1, 1, 1>>
    /\ <<1, 1, 1, 1>> \in Range(completedPaths)
    /\ SearchedPaths \subseteq Range(completedPaths)

\* C19: a call of either form of generateNextPath leaves the array it was
\* handed as it was, in content and in order, and a call repeated on the
\* same array returns what the call before it returned.
NextPathLeavesArrayUnchanged ==
    [][ret'.op \in {"generateNextPath", "generateNextPathLegs"}
          => /\ completedPaths' = completedPaths
             /\ ret.op = ret'.op => ret'.value = ret.value]_vars

\* C20: a read that finds no file it can read and parse returns a response
\* with success set, no steps and a count of zero, in both forms of the tool.
UnreadableLedgerReadsAsEmpty ==
    [][/\ (ret'.op = "readLegs" /\ ~ret'.args.inMemoryData /\ ~mappingFile.readable)
          => (/\ ret'.value.success
              /\ ret'.value.steps = << >>
              /\ ret'.value.totalSteps = 0)
       /\ (ret'.op = "readLegsLegs" /\ ~legsFile.readable)
          => (/\ ret'.value.success
              /\ ret'.value.steps = << >>
              /\ ret'.value.totalSteps = 0)]_vars

\* C20 witness: the menu-step form was called without an array of the
\* caller, although the caller holds steps, and found no readable file.
FreshSessionReported ==
    /\ ret.op = "readLegs"
    /\ ~ret.args.inMemoryData
    /\ ~mappingFile.readable
    /\ ivrMappingData # << >>
    /\ ret.value.success
    /\ ret.value.steps = << >>

\* The array exploration_legs.json holds, as write_legs loads it: a file that
\* is absent or does not parse counts as an empty array.
Persisted == IF explorationLegs.readable THEN explorationLegs.steps ELSE << >>

LegNumbersOf(array) == {array[i].legNumber : i \in 1..Len(array)}

\* The entry carries what the arguments of a call say.
SamePayload(entry, args) ==
    /\ entry.legNumber = args.legNumber
    /\ entry.path \in args.path
    /\ entry.menuSequence = args.menuSequence
    /\ entry.finalOutcome = args.finalOutcome
    /\ entry.status = args.status
    /\ entry.nextTarget = args.nextTarget

\* The caller's last call of write_legs had these arguments and succeeded.
Succeeded(w, args) ==
    writers[w] = Answered(args, response(args))

\* C21: with calls of write_legs made one after the other on a ledger that
\* started empty or missing, the file never holds two entries of one leg
\* number, and a call that succeeds leaves in the file an entry of its leg
\* number that carries its arguments, keeps every entry of another leg
\* number as it was and adds none.
UpsertIsByKey ==
    /\ [](Cardinality(LegNumbersOf(Persisted)) = Len(Persisted))
    /\ [][(ret'.op = "writeLegs" /\ ret'.value.success)
            => /\ \E e \in Range(Persisted') : SamePayload(e, ret'.args)
               /\ \A e \in Range(Persisted) :
                     e.legNumber # ret'.args.legNumber => e \in Range(Persisted')
               /\ \A e \in Range(Persisted') :
                     e.legNumber # ret'.args.legNumber => e \in Range(Persisted)]_vars

\* C21 witness: one caller documented leg 1 as a transfer, the other then
\* documented leg 1 as voicemail; the file holds leg 1 once, as voicemail,
\* beside leg 2.
LaterPayloadReplacedEarlier ==
    /\ ret.op = "writeLegs"
    /\ ret.value.success
    /\ ret.args.legNumber = 1
    /\ ret.args.finalOutcome = "voicemail"
    /\ Succeeded("manual", ret.args)
    /\ Succeeded("job", [ret.args EXCEPT !.finalOutcome = "transfer"])
    /\ Len(Persisted) = 2
    /\ Persisted[1].finalOutcome = "voicemail"
    /\ Persisted[2].legNumber = 2

\* C22: after a call of write_legs that succeeds, the file holds its entries
\* in ascending order of leg number.
UpsertKeepsLegOrder ==
    [][(ret'.op = "writeLegs" /\ ret'.value.success)
         => \A i, j \in 1..Len(Persisted') :
               i < j => Persisted'[i].legNumber <= Persisted'[j].legNumber]_vars

\* C22 witness: leg 1 was documented after leg 2 and stands before it.
LaterUpsertStandsFirst ==
    /\ ret.op = "writeLegs"
    /\ ret.value.success
    /\ ret.args.legNumber = 1
    /\ Len(Persisted) = 2
    /\ Persisted[1].legNumber = 1
    /\ Persisted[1].explorationDate > Persisted[2].explorationDate

\* C23 as stated: a call of write_legs that succeeds on a file which holds
\* an entry carrying the very arguments of the call leaves the file as it
\* was.
RepeatedUpsertLeavesFileUnchanged ==
    [][(/\ ret'.op = "writeLegs"
        /\ ret'.value.success
        /\ \E e \in Range(Persisted) : SamePayload(e, ret'.args))
         => explorationLegs' = explorationLegs]_vars

\* C23: such a call leaves the file with the same entries in the same order,
\* but for the explorationDate of the entry of its leg number, which is not
\* earlier than it was and not later than the clock.
RepeatedUpsertOnlyRestamps ==
    [][(/\ ret'.op = "writeLegs"
        /\ ret'.value.success
        /\ \E e \in Range(Persisted) : SamePayload(e, ret'.args))
         => /\ Len(Persisted') = Len(Persisted)
            /\ \A i \in 1..Len(Persisted) :
                  IF Persisted[i].legNumber = ret'.args.legNumber
                  THEN /\ Persisted'[i] =
                            [Persisted[i] EXCEPT !.explorationDate =
                                                    Persisted'[i].explorationDate]
                       /\ Persisted'[i].explorationDate >= Persisted[i].explorationDate
                       /\ Persisted'[i].explorationDate <= clock'
                  ELSE Persisted'[i] = Persisted[i]]_vars

\* C23 witness: both callers documented leg 2 with the same arguments, the
\* second after the clock had moved on; the file holds leg 2 with the later
\* date, and leg 1 as it was.
SamePayloadRestamped ==
    /\ ret.op = "writeLegs"
    /\ ret.value.success
    /\ ret.args.legNumber = 2
    /\ Succeeded("job", ret.args)
    /\ Succeeded("manual", ret.args)
    /\ Len(Persisted) = 2
    /\ Persisted[1].explorationDate = 0
    /\ Persisted[2].explorationDate = 1

\* C30: a call of write_legs that returns a failure leaves the file and the
\* status of the job as they were.
FailedUpsertChangesNothing ==
    [][(ret'.op = "writeLegs" /\ ~ret'.value.success)
         => /\ explorationLegs' = explorationLegs
            /\ status' = status]_vars

\* The leg numbers the file holds that the array a caller is about to write
\* does not hold: the caller loaded the file before they were written.
WrittenSinceLoaded(w) ==
    LegNumbersOf(Persisted) \ LegNumbersOf(writers[w].existingData)

UpsertedEntryIsLoaded ==
    [][/\ (/\ ret'.op = "readLegsLegs"
           /\ ret'.args.filterStatus = "ALL"
           /\ ret'.args.targetPath = {})
            => \A e \in Range(Persisted) : e \in Range(ret'.value.steps)
       /\ (ret'.op = "syncMappingDataFromFile")
            => \A e \in Range(Persisted) : e \in Range(ivrMappingData')]_vars

\* The array a read of the menu-step form works on: the caller's, or the
\* file's, which counts as empty when it cannot be read.
LoadedSteps(args) ==
    IF args.inMemoryData THEN ivrMappingData
    ELSE IF mappingFile.readable THEN mappingFile.steps ELSE << >>

\* The array a read of the leg form works on.
LoadedLegs == IF legsFile.readable THEN legsFile.steps ELSE << >>

\* How often an array holds an entry.
Count(array, e) == Cardinality({i \in 1..Len(array) : array[i] = e})

\* An entry of this status and path is asked for by the arguments of a read.
Requested(args, entryStatus, entryPath) ==
    /\ args.filterStatus = "ALL" \/ entryStatus = args.filterStatus
    /\ args.targetPath = {} \/ entryPath \in args.targetPath

\* C25: a read returns each entry of the loaded array that has the status
\* and the path asked for as often as the array holds it, and no other
\* entry; the menu-step form returns them in the order of their menu paths,
\* the leg form in the order of their leg numbers.
FilterReturnsRequestedInOrder ==
    [][/\ (ret'.op = "readLegs")
            => LET loaded == LoadedSteps(ret'.args)
                   returned == ret'.value.steps
               IN  /\ \A e \in Range(loaded) \cup Range(returned) :
                         Count(returned, e) =
                            IF Requested(ret'.args, e.status, e.menuPath)
                            THEN Count(loaded, e) ELSE 0
                   /\ \A i, j \in 1..Len(returned) :
                         i < j => ~StringLess(returned[j].menuPath,
                                              returned[i].menuPath)
       /\ (ret'.op = "readLegsLegs")
            => LET returned == ret'.value.steps
               IN  /\ \A e \in Range(LoadedLegs) \cup Range(returned) :
                         Count(returned, e) =
                            IF Requested(ret'.args, e.status, e.path)
                            THEN Count(LoadedLegs, e) ELSE 0
                   /\ \A i, j \in 1..Len(returned) :
                         i < j => returned[i].legNumber <= returned[j].legNumber]_vars

\* C25 witness: a read of the file for the completed steps of path '1'
\* returned one step of the two the file holds.
FilteredReadDroppedOthers ==
    /\ ret.op = "readLegs"
    /\ ~ret.args.inMemoryData
    /\ ret.args.filterStatus = "COMPLETED"
    /\ ret.args.targetPath = {<<1>>}
    /\ Len(mappingFile.steps) = 2
    /\ Len(ret.value.steps) = 1
    /\ ret.value.steps[1].menuPath = <<1>>

\* The entries of an array that are in progress, and its completed paths.
InProgress(array) == {e \in Range(array) : e.status = "IN_PROGRESS"}
CompletedLegPaths(array) ==
    LET completed == SelectSeq(array, LAMBDA leg : leg.status = "COMPLETED")
    IN  [i \in 1..Len(completed) |-> completed[i].path]
CompletedMenuPaths(array) ==
    LET completed == SelectSeq(array, LAMBDA step : step.status = "COMPLETED")
    IN  [i \in 1..Len(completed) |-> completed[i].menuPath]

\* C26 as stated: when the loaded array holds an entry in progress, the
\* suggested path is the menu path of such a step, or the next target or the
\* path of such a leg; when it holds none, it is what the planner returns
\* for the completed paths.
InProgressEntryAlwaysSuggested ==
    [][/\ (ret'.op = "readLegs")
            => LET loaded == LoadedSteps(ret'.args)
                   next == ret'.value.nextSuggestedPath
               IN  IF InProgress(loaded) # {}
                   THEN \E e \in InProgress(loaded) : next = e.menuPath
                   ELSE next = generateNextPath(CompletedMenuPaths(loaded))
       /\ (ret'.op = "readLegsLegs" /\ legsFile.readable)
            => LET next == ret'.value.nextSuggestedPath
               IN  IF InProgress(LoadedLegs) # {}
                   THEN \E e \in InProgress(LoadedLegs) :
                           next \in e.nextTarget \cup {e.path}
                   ELSE next = generateNextPathLegs(CompletedLegPaths(LoadedLegs)).value]_vars

\* C26: the menu-step form suggests the menu path of a step in progress
\* whenever there is one.  The leg form suggests the next target of a leg in
\* progress, or, when a leg in progress records no next target, what the
\* planner returns, as it does when no leg is in progress.
InProgressTargetSuggested ==
    [][/\ (ret'.op = "readLegs")
            => LET loaded == LoadedSteps(ret'.args)
                   next == ret'.value.nextSuggestedPath
               IN  IF InProgress(loaded) # {}
                   THEN \E e \in InProgress(loaded) : next = e.menuPath
                   ELSE next = generateNextPath(CompletedMenuPaths(loaded))
       /\ (ret'.op = "readLegsLegs" /\ legsFile.readable)
            => LET next == ret'.value.nextSuggestedPath
                   planned == generateNextPathLegs(CompletedLegPaths(LoadedLegs)).value
               IN  IF InProgress(LoadedLegs) # {}
                   THEN \/ \E e \in InProgress(LoadedLegs) : next \in e.nextTarget
                        \/ /\ \E e \in InProgress(LoadedLegs) : e.nextTarget = {}
                           /\ next = planned
                   ELSE next = planned]_vars

\* C26 witness: the file holds leg 1 of path '1', completed, and leg 2 of
\* path '1', in progress with no next target; the read suggested '2', which
\* is the planner's.
PlannerUsedDespiteLegInProgress ==
    /\ ret.op = "readLegsLegs"
    /\ Len(LoadedLegs) = 2
    /\ \E e \in InProgress(LoadedLegs) : e.nextTarget = {} /\ e.path = <<1>>
    /\ \A e \in InProgress(LoadedLegs) : e.nextTarget = {}
    /\ CompletedLegPaths(LoadedLegs) = <<<<1>>>>
    /\ ret.value.nextSuggestedPath = <<2>>

\* C27: the completed paths and the suggested path a read returns are those
\* a read of the same data with no filter returns.
AnalysisIgnoresFilter ==
    [][/\ (ret'.op = "readLegs")
            => LET unfiltered == [ret'.args EXCEPT !.filterStatus = "ALL",
                                                   !.targetPath = {}]
                   plain == readLegs(unfiltered, ivrMappingData, mappingFile).response
               IN  /\ ret'.value.completedPaths = plain.completedPaths
                   /\ ret'.value.nextSuggestedPath = plain.nextSuggestedPath
       /\ (ret'.op = "readLegsLegs")
            => LET unfiltered == [ret'.args EXCEPT !.filterStatus = "ALL",
                                                   !.targetPath = {}]
                   plain == readLegsLegs(unfiltered, legsFile)
               IN  /\ ret'.value.completedPaths = plain.completedPaths
                   /\ ret'.value.nextSuggestedPath = plain.nextSuggestedPath]_vars

\* C28: a read leaves the mapping file and the array of the job as they
\* were, in content and in order.
ReadChangesNothing ==
    [][(ret'.op = "readLegs")
         => /\ mappingFile' = mappingFile
            /\ ivrMappingData' = ivrMappingData]_vars

\* C33: after cancelJob has returned true the workflow has no further side
\* effect, at whichever await point the cancellation arrived: no step taken
\* while the job is cancelled initiates a call, posts a notification after
\* the cancelled one or attaches a result.
NoSideEffectAfterCancel ==
    [][(status = "cancelled")
          => (calls' = calls /\ webhooks' = webhooks /\ result' = result)]_vars

\* C34: the completion handle is created and registered before the call
\* initiator is invoked, so a notifyCallComplete that arrives while the
\* handle of the current call is pending, also before the initiator has
\* returned, fulfils that handle, and the await that follows resumes with
\* it and goes on to the resync: the completion signal is not lost.
EarlySignalNotLost ==
    [][/\ (pc' = "makeCall" /\ pc # "makeCall")
          => /\ callCompletionPromise' = Len(handles')
             /\ callCompletionResolve' = callCompletionPromise'
             /\ callCompletionReject' = callCompletionPromise'
             /\ handles'[callCompletionPromise'] = "pending"
       /\ (/\ ret'.op = "notifyCallComplete"
           /\ pc \in {"makeCall", "awaitHandle"}
           /\ handles[callCompletionPromise] = "pending")
          => handles'[callCompletionPromise] = "fulfilled"
       /\ (/\ pc = "awaitHandle"
           /\ pc' # pc
           /\ handles[callCompletionPromise] = "fulfilled")
          => (pc' = "sync" /\ status' = status /\ error' = error)]_vars

\* C34 witness: notifyCallComplete has just fulfilled the handle of a call
\* whose initiator has not returned yet.
SignalBeforeInitiatorReturned ==
    /\ ret = Returned("notifyCallComplete", "ok")
    /\ pc = "makeCall"
    /\ handles[callCompletionPromise] = "fulfilled"

\* C35: a ledger read failure during the post-call resync is not fatal.  The
\* resync step taken while the file is missing or unparseable leaves status
\* and error as they are, keeps the steps held in memory and goes on to
\* build the context, and the job still reaches completed.
ResyncFailureIsNotFatal ==
    /\ [][(pc = "sync" /\ pc' # pc /\ ~mappingFile.readable)
             => /\ status' = status
                /\ error' = error
                /\ ivrMappingData' = ivrMappingData
                /\ pc' = "build"]_vars
    /\ (pc = "sync" /\ ~mappingFile.readable) ~> (status = "completed")

\* C35 witness: the resync after a fulfilled handle has just returned over
\* a file that cannot be read, and the job goes on to build its context.
ResyncFailedAndJobGoesOn ==
    /\ pc = "build"
    /\ ret = Returned("processMapping", "ok")
    /\ HandleFulfilled
    /\ ~mappingFile.readable
    /\ status = "in-progress"
    /\ error = {}

\* C36: under the stopping policy the code has, the loop exits after the
\* first iteration whose handle is fulfilled: a job runs at most one
\* iteration, initiates at most one call, creates at most one handle and
\* arms at most one timer, and a timer that fires settles no handle but the
\* one it was armed for.
AtMostOneCallPerJob ==
    /\ [](/\ iterationCount <= 1
          /\ calls <= 1
          /\ Len(handles) <= 1
          /\ timers \subseteq {1})
    /\ [][ret'.op = "timer"
             => \A h \in Handles :
                   handles'[h] # handles[h] => h \in timers \ timers']_vars

\* C36 witness: a job completed after its one call, and the one timer has
\* fired since without settling anything.
CompletedAfterOneCall ==
    /\ status = "completed"
    /\ calls = 1
    /\ handles = <<"fulfilled">>
    /\ timers = {}
    /\ ret = Returned("timer", "ok")

\* C37: whenever the status is completed, failed or cancelled no completion
\* handle is outstanding: both stored callbacks are cleared, also when the
\* job failed because call initiation failed after the handle was
\* registered.
NoHandleOutstandingWhenTerminal ==
    status \in Terminal => ~Outstanding

\* The terminal events posted so far, in order.
TerminalEvents ==
    SelectSeq(webhooks, LAMBDA w : w.event \in Terminal)

\* C38: each job emits at most one terminal notification among completed,
\* failed and cancelled, and that event names the status the job holds from
\* then on.
OneTerminalNotification ==
    /\ Len(TerminalEvents) <= 1
    /\ Len(TerminalEvents) = 1 => TerminalEvents[1].event = status

\* C39: the two forms of the ledger read plan identically: for every set of
\* completed paths, the empty set and a missing file included, and with no
\* entry in progress, the next path one form suggests is the one the other
\* form's planner returns for the same completed paths.
BothFormsPlanIdentically ==
    [][/\ (ret'.op = "readLegs" /\ InProgress(LoadedSteps(ret'.args)) = {})
            => ret'.value.nextSuggestedPath
                  = generateNextPathLegs(ret'.value.completedPaths).value
       /\ (ret'.op = "readLegsLegs" /\ InProgress(LoadedLegs) = {})
            => ret'.value.nextSuggestedPath
                  = generateNextPath(ret'.value.completedPaths)]_vars

\* The handle a job's stored callbacks belong to is settled as before.
SameOutstandingHandle(resolve, reject) ==
    \A h \in {resolve, reject} \ {NoHandle} : handles'[h] = handles[h]

\* C31: two jobs run side by side; cancelJob, notifyCallComplete and a
\* timer firing on one of them never change the other's status, error or
\* result, nor its outstanding handle: its stored callbacks stay as they are
\* and the promise they belong to stays unsettled.
JobsAreIndependent ==
    [][/\ ret'.op \in {"cancelJob", "notifyCallComplete", "timer"}
          => /\ other'.status = other.status
             /\ other'.error = other.error
             /\ other'.result = other.result
             /\ other'.callCompletionResolve = other.callCompletionResolve
             /\ other'.callCompletionReject = other.callCompletionReject
             /\ SameOutstandingHandle(other.callCompletionResolve,
                                      other.callCompletionReject)
       /\ ret'.op \in {"other.cancelJob", "other.notifyCallComplete",
                       "other.timer"}
          => /\ UNCHANGED <<status, error, result, callCompletionResolve,
                            callCompletionReject>>
             /\ SameOutstandingHandle(callCompletionResolve,
                                      callCompletionReject)]_vars

\* C31 witness: cancelJob on one job has just rejected that job's handle
\* while the other job is in progress with its own handle pending.
CancelledBesideWaitingJob ==
    /\ ret = Returned("cancelJob", "true")
    /\ \E h \in Handles : handles[h] = "cancelled"
    /\ other.status = "in-progress"
    /\ other.callCompletionReject # NoHandle
    /\ handles[other.callCompletionReject] = "pending"

\* C32: when cancelJob is called on a job with an outstanding handle, the
\* handle is rejected before the status becomes cancelled: no statement of
\* cancelJob, the posting of the cancelled notification included, runs in a
\* state where the status is cancelled and the handle is still outstanding.
HandleRejectedBeforeCancelled ==
    cancelPc # "idle" => ~(status = "cancelled" /\ Outstanding)

====
